---- MODULE Spec2Model ----
(***************************************************************************)
(* autoAce: the event record store (eventos.csv), the Source Validator     *)
(* (check_sources.py) and the workload orchestrator (appy.py,              *)
(* EventoManager).                                                         *)
(*                                                                         *)
(* Python str values whose characters the code inspects (names, titles,    *)
(* hosts, source URLs) are sequences of one-character strings; opaque      *)
(* strings (tracker, token, content ids) are TLA+ strings.                 *)
(***************************************************************************)
EXTENDS Integers, Sequences, FiniteSets, TLC

VARIABLES
    csv_exists,     \* eventos.csv exists on disk
    csv_rows,       \* the data rows of eventos.csv, one record of field texts per row
    v_pc,           \* check_sources: position in the function
    v_found,        \* check_sources: result of csv_path.exists() (line 34)
    v_eventos,      \* check_sources: the local list `eventos`
    v_i,            \* check_sources: index of the event being processed
    v_j,            \* check_sources: index of the source being processed
    v_valid_found,  \* check_sources: the local `valid_found`
    v_writes,       \* check_sources: number of times the CSV was rewritten in this run
    probe,          \* what ffprobe does for the source at [event][position]
    containers,     \* the container runtime: the containers that exist, [id, name, estado]
    next_id,        \* the container runtime: the id the next created container gets
    plataforma,     \* platform.system()
    vol_existe,     \* the volume names whose _data directory exists
    vol_archivos,   \* the entries of those directories, [vol, nombre, suffix, is_file]
    pc,             \* per request: position in start_event / iniciar_docker_evento
    nombre_req,     \* per request: the <nombre> of POST /event/<nombre>/start
    config,         \* per request: the EventoConfig built by start_event
    contenedor_id,  \* per request: the local `contenedor_id`
    eliminados,     \* per request: the local `archivos_eliminados`
    comando,        \* per request: the local `comando`
    intentos,       \* per poll: the parameter `intentos`
    intento,        \* per poll: the loop variable `intento`
    http_calls,     \* per poll: number of requests.get calls made
    no_listos,      \* per poll: number of calls answered not-ready
    ultimo_id,      \* per poll: the content_id field of the last response received
    content_id,     \* per request: the local `content_id`
    eventos_l,      \* per request: the local `eventos` of the update in progress
    resultado,      \* per request: the value iniciar_docker_evento returned
    cmds,           \* per request: the runtime commands it issued, in order, with their outcome
    run_info,       \* per request: what held when it issued `docker run`
    runs,           \* number of `docker run` commands issued so far
    solapado,       \* some update cycle began while another request was inside one
    sin_registro,   \* per request: one of its updates found no record of its event name
    csv_rows0,      \* the rows of eventos.csv in the initial state
    vol_archivos0,  \* the volume directory entries in the initial state
    web             \* the store request of the web handlers (create, edit, delete)

store_vars == <<csv_exists, csv_rows>>
validator_vars == <<v_pc, v_found, v_eventos, v_i, v_j, v_valid_found, v_writes, probe>>
docker_vars == <<containers, next_id>>
vol_vars == <<plataforma, vol_existe, vol_archivos>>
poll_vars == <<intentos, intento, http_calls, no_listos, ultimo_id>>
req_vars == <<pc, nombre_req, config, contenedor_id, eliminados, comando, poll_vars,
              content_id, eventos_l, resultado, cmds, run_info, runs, solapado,
              sin_registro>>
init_vars == <<csv_rows0, vol_archivos0>>

vars == <<store_vars, validator_vars, docker_vars, vol_vars, req_vars, init_vars, web>>

-----------------------------------------------------------------------------
(* Bounds *)

\* longest sources list of a record
MaxSources == 2

-----------------------------------------------------------------------------
(* str.strip() *)

Whitespace == {" ", "\t", "\n"}

RECURSIVE lstrip(_)
lstrip(s) == IF s # <<>> /\ Head(s) \in Whitespace THEN lstrip(Tail(s)) ELSE s

RECURSIVE rstrip(_)
rstrip(s) ==
    IF s # <<>> /\ s[Len(s)] \in Whitespace THEN rstrip(SubSeq(s, 1, Len(s) - 1)) ELSE s

strip(s) == rstrip(lstrip(s))

-----------------------------------------------------------------------------
(* Characters and text conversions *)

Digits == {"0", "1", "2", "3", "4", "5", "6", "7", "8", "9"}
Lower == {"a", "b", "c", "d", "e", "f", "g", "h", "i", "j", "k", "l", "m",
          "n", "o", "p", "q", "r", "s", "t", "u", "v", "w", "x", "y", "z"}
Upper == {"A", "B", "C", "D", "E", "F", "G", "H", "I", "J", "K", "L", "M",
          "N", "O", "P", "Q", "R", "S", "T", "U", "V", "W", "X", "Y", "Z"}
Alnum == Lower \cup Upper \cup Digits
HexDigits == Digits \cup {"a", "b", "c", "d", "e", "f", "A", "B", "C", "D", "E", "F"}

AllIn(s, chars) == \A i \in 1..Len(s) : s[i] \in chars

\* the characters of s joined into one string (an f-string or " ".join)
RECURSIVE Cat(_)
Cat(s) == IF s = <<>> THEN "" ELSE Head(s) \o Cat(Tail(s))

\* str.split(sep) for a one-character separator
RECURSIVE SplitFrom(_, _, _, _)
SplitFrom(s, sep, cur, acc) ==
    IF s = <<>> THEN Append(acc, cur)
    ELSE IF Head(s) = sep THEN SplitFrom(Tail(s), sep, <<>>, Append(acc, cur))
    ELSE SplitFrom(Tail(s), sep, Append(cur, Head(s)), acc)

Split(s, sep) == SplitFrom(s, sep, <<>>, <<>>)

DigitValue(c) ==
    CASE c = "0" -> 0 [] c = "1" -> 1 [] c = "2" -> 2 [] c = "3" -> 3 [] c = "4" -> 4
      [] c = "5" -> 5 [] c = "6" -> 6 [] c = "7" -> 7 [] c = "8" -> 8 [] c = "9" -> 9

DigitChar(d) ==
    CASE d = 0 -> "0" [] d = 1 -> "1" [] d = 2 -> "2" [] d = 3 -> "3" [] d = 4 -> "4"
      [] d = 5 -> "5" [] d = 6 -> "6" [] d = 7 -> "7" [] d = 8 -> "8" [] d = 9 -> "9"

RECURSIVE DecimalValue(_, _)
DecimalValue(s, acc) ==
    IF s = <<>> THEN acc ELSE DecimalValue(Tail(s), 10 * acc + DigitValue(Head(s)))

RECURSIVE DecimalText(_)
DecimalText(n) ==
    IF n < 10 THEN <<DigitChar(n)>> ELSE Append(DecimalText(n \div 10), DigitChar(n % 10))

\* str(n) for an int
str_int(n) == IF n < 0 THEN <<"-">> \o DecimalText(0 - n) ELSE DecimalText(n)

\* int(text): surrounding whitespace and one sign are accepted, then decimal digits;
\* anything else is a ValueError (digit-group underscores are not modelled)
int_str(text) ==
    LET s == strip(text)
        signed == s # <<>> /\ Head(s) \in {"-", "+"}
        body == IF signed THEN Tail(s) ELSE s
    IN  IF body # <<>> /\ AllIn(body, Digits)
        THEN [ok |-> TRUE,
              val |-> IF signed /\ Head(s) = "-" THEN 0 - DecimalValue(body, 0)
                      ELSE DecimalValue(body, 0)]
        ELSE [ok |-> FALSE, val |-> 0]

-----------------------------------------------------------------------------
(* JSON text of a sources list.  A text is a sequence of tokens; json_dumps    *)
(* writes the tokens of [{"source": ..., "valid": ...}, ...] and json_loads    *)
(* parses them back, failing (JSONDecodeError) on any other token sequence.    *)

Punct(c) == [t |-> "punct", v |-> c]
Key(k) == [t |-> "key", v |-> k]
Str(s) == [t |-> "str", v |-> s]
Lit(b) == [t |-> "lit", v |-> b]

IsPunct(tok, c) == tok.t = "punct" /\ tok.v = c
IsKey(tok, k) == tok.t = "key" /\ tok.v = k

json_dumps_fuente(f) ==
    << Punct("{"), Key("source"), Punct(":"), Str(f.source), Punct(","),
       Key("valid"), Punct(":"), Lit(IF f.valid THEN "true" ELSE "false"), Punct("}") >>

RECURSIVE json_dumps_items(_)
json_dumps_items(l) ==
    IF l = <<>> THEN <<>>
    ELSE IF Len(l) = 1 THEN json_dumps_fuente(l[1])
    ELSE json_dumps_fuente(l[1]) \o <<Punct(",")>> \o json_dumps_items(Tail(l))

json_dumps(l) == <<Punct("[")>> \o json_dumps_items(l) \o <<Punct("]")>>

JSONDecodeError == [ok |-> FALSE, val |-> <<>>]

\* the object starting at toks[i], if one starts there
FuenteAt(toks, i) ==
    IF /\ i + 8 <= Len(toks)
       /\ IsPunct(toks[i], "{")
       /\ IsKey(toks[i + 1], "source")
       /\ IsPunct(toks[i + 2], ":")
       /\ toks[i + 3].t = "str"
       /\ IsPunct(toks[i + 4], ",")
       /\ IsKey(toks[i + 5], "valid")
       /\ IsPunct(toks[i + 6], ":")
       /\ toks[i + 7].t = "lit"
       /\ toks[i + 7].v \in {"true", "false"}
       /\ IsPunct(toks[i + 8], "}")
    THEN [ok |-> TRUE,
          val |-> [source |-> toks[i + 3].v, valid |-> (toks[i + 7].v = "true")]]
    ELSE JSONDecodeError

RECURSIVE json_loads_items(_, _, _)
json_loads_items(toks, i, acc) ==
    LET f == FuenteAt(toks, i) IN
    IF ~f.ok THEN JSONDecodeError
    ELSE IF i + 9 = Len(toks) /\ IsPunct(toks[i + 9], "]")
         THEN [ok |-> TRUE, val |-> Append(acc, f.val)]
    ELSE IF i + 9 < Len(toks) /\ IsPunct(toks[i + 9], ",")
         THEN json_loads_items(toks, i + 10, Append(acc, f.val))
    ELSE JSONDecodeError

json_loads(toks) ==
    IF Len(toks) < 2 \/ ~IsPunct(toks[1], "[") THEN JSONDecodeError
    ELSE IF Len(toks) = 2 /\ IsPunct(toks[2], "]") THEN [ok |-> TRUE, val |-> <<>>]
    ELSE json_loads_items(toks, 2, <<>>)

\* a sources field that is not JSON: an array cut off after its first object
MalformedText(f) == <<Punct("[")>> \o json_dumps_fuente(f)

-----------------------------------------------------------------------------
(* Reading the CSV: each row with its sources field decoded. *)

\* lines 44-51 of check_sources.py, lines 94-100 of appy.py
decode_sources(text) ==
    IF text # <<>>
    THEN LET r == json_loads(text) IN IF r.ok THEN r.val ELSE <<>>
    ELSE <<>>

decode_row(row) == [row EXCEPT !.sources = decode_sources(row.sources)]

read_rows(rows) == [i \in 1..Len(rows) |-> decode_row(rows[i])]

-----------------------------------------------------------------------------
(* EventoConfig (appy.py lines 23-62) *)

\* ipaddress.IPv4Address: four decimal octets, none above 255, none with a leading zero
parse_octet(o) ==
    /\ o # <<>>
    /\ AllIn(o, Digits)
    /\ Len(o) <= 3
    /\ (o = <<"0">> \/ Head(o) # "0")
    /\ DecimalValue(o, 0) <= 255

IPv4Valida(ip) ==
    LET octets == Split(ip, ".") IN
    Len(octets) = 4 /\ \A i \in 1..4 : parse_octet(octets[i])

parse_hextet(h) == h # <<>> /\ AllIn(h, HexDigits) /\ Len(h) <= 4

\* ipaddress.IPv6Address: the groups around at most one "::", an IPv4 tail counted
\* as two groups, an optional non-empty %scope
IPv6Valida(ip) ==
    LET scoped == Split(ip, "%")
        addr == scoped[1]
        parts0 == Split(addr, ":")
        n0 == Len(parts0)
        v4tail == n0 >= 1 /\ \E i \in 1..Len(parts0[n0]) : parts0[n0][i] = "."
        parts == IF v4tail
                 THEN SubSeq(parts0, 1, n0 - 1) \o << <<"0">>, <<"0">> >>
                 ELSE parts0
        n == Len(parts)
        skips == {i \in 2..(n - 1) : parts[i] = <<>>}
        skip == CHOOSE i \in skips : TRUE
        hi0 == skip - 1
        lo0 == n - skip
        hi == IF parts[1] = <<>> THEN hi0 - 1 ELSE hi0
        lo == IF parts[n] = <<>> THEN lo0 - 1 ELSE lo0
    IN  /\ Len(scoped) <= 2
        /\ (Len(scoped) = 2 => scoped[2] # <<>>)
        /\ n0 >= 3
        /\ (v4tail => IPv4Valida(parts0[n0]))
        /\ n <= 9
        /\ Cardinality(skips) <= 1
        /\ IF skips # {}
           THEN /\ (parts[1] = <<>> => hi = 0)
                /\ (parts[n] = <<>> => lo = 0)
                /\ 8 - (hi + lo) >= 1
                /\ \A i \in 1..hi : parse_hextet(parts[i])
                /\ \A i \in (n - lo + 1)..n : parse_hextet(parts[i])
           ELSE /\ n = 8
                /\ \A i \in 1..8 : parse_hextet(parts[i])

\* lines 36-41
_es_ip_valida(ip) == IPv4Valida(ip) \/ IPv6Valida(ip)

\* re.match with a pattern ending in $: the match may end before one final newline
BeforeFinalNewline(s) ==
    IF s # <<>> /\ s[Len(s)] = "\n" THEN SubSeq(s, 1, Len(s) - 1) ELSE s

\* one label [a-zA-Z0-9]([a-zA-Z0-9-]{0,61}[a-zA-Z0-9])?
EtiquetaValida(l) ==
    /\ Len(l) >= 1
    /\ Len(l) <= 63
    /\ l[1] \in Alnum
    /\ l[Len(l)] \in Alnum
    /\ AllIn(l, Alnum \cup {"-"})

\* lines 43-45
_es_dominio_valido(dominio) ==
    LET labels == Split(BeforeFinalNewline(dominio), ".") IN
    \A i \in 1..Len(labels) : EtiquetaValida(labels[i])

\* line 49: self.nombre matches ^[a-zA-Z0-9_-]+$
NombreValido(nombre) ==
    LET core == BeforeFinalNewline(nombre) IN
    core # <<>> /\ AllIn(core, Alnum \cup {"_", "-"})

ErrNombre == "Nombre invalido: use solo letras, numeros, guiones y guiones bajos"
ErrPuerto == "Puerto invalido: debe estar entre 1024 y 65535"
ErrHost == "Host invalido: debe ser una IP valida o un nombre de dominio"
ErrBitrate == "Bitrate invalido"
ErrTitulo == "El titulo no puede estar vacio"
ErrSources == "Debe ingresar al menos una fuente"

PuertoMin == 1024
PuertoMax == 65535
BitrateMax == 10000000

\* validar stopping at the first rule that fails: at most one violation is reported
validar_primera(cfg) ==
    IF ~NombreValido(cfg.nombre) THEN <<ErrNombre>>
    ELSE IF ~(PuertoMin <= cfg.puerto /\ cfg.puerto <= PuertoMax) THEN <<ErrPuerto>>
    ELSE IF ~_es_ip_valida(cfg.host) /\ ~_es_dominio_valido(cfg.host) THEN <<ErrHost>>
    ELSE IF ~(0 <= cfg.bitrate /\ cfg.bitrate <= BitrateMax) THEN <<ErrBitrate>>
    ELSE IF strip(cfg.titulo) = <<>> THEN <<ErrTitulo>>
    ELSE IF cfg.sources = <<>>
            \/ \A i \in 1..Len(cfg.sources) : strip(cfg.sources[i].source) = <<>>
         THEN <<ErrSources>>
    ELSE <<>>

\* lines 47-62: the list of violations, in the order the rules are applied
validar(cfg) ==
    (IF ~NombreValido(cfg.nombre) THEN <<ErrNombre>> ELSE <<>>)
    \o (IF ~(PuertoMin <= cfg.puerto /\ cfg.puerto <= PuertoMax)
        THEN <<ErrPuerto>> ELSE <<>>)
    \o (IF ~_es_ip_valida(cfg.host) /\ ~_es_dominio_valido(cfg.host)
        THEN <<ErrHost>> ELSE <<>>)
    \o (IF ~(0 <= cfg.bitrate /\ cfg.bitrate <= BitrateMax)
        THEN <<ErrBitrate>> ELSE <<>>)
    \o (IF strip(cfg.titulo) = <<>> THEN <<ErrTitulo>> ELSE <<>>)
    \o (IF cfg.sources = <<>>
           \/ \A i \in 1..Len(cfg.sources) : strip(cfg.sources[i].source) = <<>>
        THEN <<ErrSources>> ELSE <<>>)

-----------------------------------------------------------------------------
(* Command Builder (appy.py lines 262-298) *)

\* the source of the last entry flagged valid (the loop without its `break`)
ultima_fuente_valida(sources) ==
    LET flagged == {i \in 1..Len(sources) : sources[i].valid} IN
    IF flagged = {} THEN [none |-> TRUE, source |-> <<>>]
    ELSE [none |-> FALSE,
          source |-> sources[CHOOSE i \in flagged : \A k \in flagged : i >= k].source]

\* lines 264-268: the source of the first entry flagged valid, None when there is none
primera_fuente_valida(sources) ==
    LET flagged == {i \in 1..Len(sources) : sources[i].valid} IN
    IF flagged = {} THEN [none |-> TRUE, source |-> <<>>]
    ELSE [none |-> FALSE,
          source |-> sources[CHOOSE i \in flagged : \A k \in flagged : i <= k].source]

\* lines 271-298: the argument list for a selected source
argumentos_docker(cfg, valid_source) ==
    << "docker", "run", "-d", "--restart", "unless-stopped",
       "--name", Cat(cfg.nombre),
       "-p", ToString(cfg.puerto) \o ":" \o ToString(cfg.puerto) \o "/tcp",
       "-p", ToString(cfg.puerto) \o ":" \o ToString(cfg.puerto) \o "/udp",
       "-v", "acestreamengine_" \o Cat(cfg.nombre) \o ":/data",
       "lob666/acestreamengine",
       "--port", ToString(cfg.puerto),
       "--tracker", cfg.tracker,
       "--stream-source",
       "--name", Cat(cfg.nombre),
       "--title", Cat(cfg.titulo),
       "--publish-dir", "/data",
       "--cache-dir", "/data",
       "--skip-internal-tracker",
       "--quality", "HD",
       "--category", "amateur",
       "--service-access-token", cfg.token,
       "--service-remote-access",
       "--log-debug", "1",
       "--max-peers", "6",
       "--max-upload-slots", "6",
       "--source-read-timeout", "15",
       "--source-reconnect-interval", "1",
       "--host", Cat(cfg.host),
       "--source", Cat(valid_source),
       "--bitrate", ToString(cfg.bitrate) >>

\* lines 262-298: the command, or the ValueError of line 270
_construir_comando_docker(cfg) ==
    LET sel == primera_fuente_valida(cfg.sources) IN
    IF sel.none \/ sel.source = <<>>
    THEN [ok |-> FALSE, comando |-> <<>>]
    ELSE [ok |-> TRUE, comando |-> argumentos_docker(cfg, sel.source)]

-----------------------------------------------------------------------------
(* Source Validator: check_sources.py *)

ProbeOutcomes == {"exit0", "exit1", "oserror"}

\* is_valid_source counting a probe that could not be run as a success
is_valid_source_error_valido(outcome) ==
    CASE outcome = "exit0" -> TRUE
      [] outcome = "exit1" -> FALSE
      [] outcome = "oserror" -> TRUE

\* True exactly when ffprobe ran and exited 0; a failure to run it is False
is_valid_source(outcome) ==
    CASE outcome = "exit0" -> TRUE
      [] outcome = "exit1" -> FALSE
      [] outcome = "oserror" -> FALSE

\* one iteration of the loop over a record's sources (the body of `for fuente in sources`)
procesar_fuente_sin_reset(fuente, valid_found, outcome) ==
    IF valid_found
    THEN [fuente |-> fuente, valid_found |-> TRUE]
    ELSE IF strip(fuente.source) = <<>>
    THEN [fuente |-> [fuente EXCEPT !.valid = FALSE], valid_found |-> FALSE]
    ELSE IF is_valid_source(outcome)
    THEN [fuente |-> [fuente EXCEPT !.valid = TRUE], valid_found |-> TRUE]
    ELSE [fuente |-> [fuente EXCEPT !.valid = FALSE], valid_found |-> FALSE]

procesar_fuente(fuente, valid_found, outcome) ==
    IF valid_found
    THEN [fuente |-> [fuente EXCEPT !.valid = FALSE], valid_found |-> TRUE]
    ELSE IF strip(fuente.source) = <<>>
    THEN [fuente |-> [fuente EXCEPT !.valid = FALSE], valid_found |-> FALSE]
    ELSE IF is_valid_source(outcome)
    THEN [fuente |-> [fuente EXCEPT !.valid = TRUE], valid_found |-> TRUE]
    ELSE [fuente |-> [fuente EXCEPT !.valid = FALSE], valid_found |-> FALSE]

\* a rewrite by check_sources that resets docker_active in every record
encode_eventos_inactivos(eventos) ==
    [i \in 1..Len(eventos) |->
        [eventos[i] EXCEPT !.sources = json_dumps(eventos[i].sources),
                           !.docker_active = "False"]]

\* lines 83-89: every record of `eventos`, its sources encoded again
encode_eventos(eventos) ==
    [i \in 1..Len(eventos) |->
        [eventos[i] EXCEPT !.sources = json_dumps(eventos[i].sources)]]

\* where a request is between the read and the rewrite of an update cycle
EnCiclo == {"cid_open", "cid_write", "act_open", "act_write"}

\* the positions of check_sources between its read of the store and its rewrite
VEnCiclo == {"event", "source", "open", "write"}

\* lines 33-52: the existence check, then the read of all records
VStart ==
    /\ v_pc = "start"
    /\ v_found' = csv_exists
    /\ IF ~csv_exists
       THEN /\ v_pc' = "done"
            /\ UNCHANGED <<v_eventos, v_i, solapado>>
       ELSE /\ v_eventos' = read_rows(csv_rows)
            /\ v_i' = 1
            /\ v_pc' = "event"
            /\ solapado' = (solapado \/ \E t \in DOMAIN pc : pc[t] \in EnCiclo)
    /\ UNCHANGED <<store_vars, v_j, v_valid_found, v_writes, probe>>
    /\ UNCHANGED <<docker_vars, vol_vars, init_vars, web>>
    /\ UNCHANGED <<pc, nombre_req, config, contenedor_id, eliminados, comando, poll_vars,
                   content_id, eventos_l, resultado, cmds, run_info, runs, sin_registro>>

\* the head of the loop over events, returning at an event without sources
VEvent_return ==
    /\ v_pc = "event"
    /\ IF v_i > Len(v_eventos)
       THEN /\ v_pc' = "open"
            /\ UNCHANGED <<v_i, v_j, v_valid_found>>
       ELSE IF v_eventos[v_i].sources = <<>>
       THEN /\ v_pc' = "done"
            /\ UNCHANGED <<v_i, v_j, v_valid_found>>
       ELSE /\ v_valid_found' = FALSE
            /\ v_j' = 1
            /\ v_pc' = "source"
            /\ UNCHANGED v_i
    /\ UNCHANGED <<store_vars, v_found, v_eventos, v_writes, probe>>
    /\ UNCHANGED <<docker_vars, vol_vars, req_vars, init_vars, web>>

\* lines 55-60 and 78-80: the head of the loop over events
VEvent ==
    /\ v_pc = "event"
    /\ IF v_i > Len(v_eventos)
       THEN /\ v_pc' = "open"
            /\ UNCHANGED <<v_i, v_j, v_valid_found>>
       ELSE IF v_eventos[v_i].sources = <<>>
       THEN /\ v_i' = v_i + 1
            /\ UNCHANGED <<v_pc, v_j, v_valid_found>>
       ELSE /\ v_valid_found' = FALSE
            /\ v_j' = 1
            /\ v_pc' = "source"
            /\ UNCHANGED v_i
    /\ UNCHANGED <<store_vars, v_found, v_eventos, v_writes, probe>>
    /\ UNCHANGED <<docker_vars, vol_vars, req_vars, init_vars, web>>

\* lines 61-80: one source of the current event, or the end of its list
VSource ==
    /\ v_pc = "source"
    /\ IF v_j > Len(v_eventos[v_i].sources)
       THEN /\ v_i' = v_i + 1
            /\ v_pc' = "event"
            /\ UNCHANGED <<v_eventos, v_j, v_valid_found>>
       ELSE LET r == procesar_fuente(v_eventos[v_i].sources[v_j], v_valid_found,
                                     probe[v_i][v_j]) IN
            /\ v_eventos' = [v_eventos EXCEPT ![v_i].sources[v_j] = r.fuente]
            /\ v_valid_found' = r.valid_found
            /\ v_j' = v_j + 1
            /\ UNCHANGED <<v_pc, v_i>>
    /\ UNCHANGED <<store_vars, v_found, v_writes, probe>>
    /\ UNCHANGED <<docker_vars, vol_vars, req_vars, init_vars, web>>

\* line 83: open('w') creates or truncates the file
VOpen ==
    /\ v_pc = "open"
    /\ csv_exists' = TRUE
    /\ csv_rows' = <<>>
    /\ v_pc' = "write"
    /\ UNCHANGED <<v_found, v_eventos, v_i, v_j, v_valid_found, v_writes, probe>>
    /\ UNCHANGED <<docker_vars, vol_vars, req_vars, init_vars, web>>

\* lines 84-89: header and all records written, the file closed
VWrite ==
    /\ v_pc = "write"
    /\ csv_rows' = encode_eventos(v_eventos)
    /\ v_writes' = v_writes + 1
    /\ v_pc' = "done"
    /\ UNCHANGED <<csv_exists, v_found, v_eventos, v_i, v_j, v_valid_found, probe>>
    /\ UNCHANGED <<docker_vars, vol_vars, req_vars, init_vars, web>>

-----------------------------------------------------------------------------
(* The event store as EventoManager uses it (appy.py lines 88-181) *)

\* lines 88-102
listar_eventos(rows) == read_rows(rows)

\* isinstance(sources, list): a decoded list, not the JSON text of one
EsLista(x) == x = <<>> \/ "source" \in DOMAIN x[1]

\* a rewrite that stops after the first record
_escribir_eventos_truncado(eventos) ==
    [i \in 1..(IF eventos = <<>> THEN 0 ELSE 1) |->
        IF EsLista(eventos[i].sources)
        THEN [eventos[i] EXCEPT !.sources = json_dumps(eventos[i].sources)]
        ELSE eventos[i]]

\* lines 150-165: the rows _escribir_eventos writes for `eventos`
_escribir_eventos(eventos) ==
    [i \in 1..Len(eventos) |->
        IF EsLista(eventos[i].sources)
        THEN [eventos[i] EXCEPT !.sources = json_dumps(eventos[i].sources)]
        ELSE eventos[i]]

\* index of the first record named `nombre`, 0 when there is none
PrimerIndice(eventos, nombre) ==
    LET hits == {i \in 1..Len(eventos) : eventos[i].name = nombre} IN
    IF hits = {} THEN 0 ELSE CHOOSE i \in hits : \A k \in hits : i <= k

\* the loop of _actualizar_content_id without its `break`
con_content_id_todos(eventos, nombre, cid) ==
    [k \in 1..Len(eventos) |->
        IF eventos[k].name = nombre THEN [eventos[k] EXCEPT !.content_id = cid]
        ELSE eventos[k]]

\* lines 168-172: `eventos` after the loop of _actualizar_content_id
con_content_id(eventos, nombre, cid) ==
    LET i == PrimerIndice(eventos, nombre) IN
    IF i = 0 THEN eventos ELSE [eventos EXCEPT ![i].content_id = cid]

\* lines 176-180: `eventos` after the loop of _actualizar_docker_active
con_docker_active(eventos, nombre, active) ==
    LET i == PrimerIndice(eventos, nombre) IN
    IF i = 0 THEN eventos
    ELSE [eventos EXCEPT ![i].docker_active = IF active THEN "True" ELSE "False"]

-----------------------------------------------------------------------------
(* Start requests: start_event and iniciar_docker_evento (appy.py) *)

Threads == {"t1", "t2"}

Otro(t) == CHOOSE u \in Threads : u # t

NoConfig ==
    [nombre |-> <<>>, titulo |-> <<>>, puerto |-> 0, tracker |-> "", sources |-> <<>>,
     host |-> <<>>, bitrate |-> 0, token |-> "", content_id |-> "", docker_active |-> "False"]

NoResultado == [tipo |-> "none", errores |-> <<>>, e |-> "", content_id |-> ""]

NoRun == [orden |-> 0, res |-> "none", carrera |-> FALSE]

\* line 300: the default of `intentos`
IntentosPorDefecto == 10

\* the classes `except Exception` (line 375) catches, among those raised here
SubclasesDeException ==
    {"CalledProcessError", "RuntimeError", "ValueError", "OSError", "AttributeError"}

\* lines 375-377: an exception raised inside the try block of iniciar_docker_evento
Falla_solo_RuntimeError(t, e) ==
    IF e = "RuntimeError"
    THEN /\ pc' = [pc EXCEPT ![t] = "returned"]
         /\ resultado' = [resultado EXCEPT ![t] = [NoResultado EXCEPT !.tipo = "error", !.e = e]]
    ELSE /\ pc' = [pc EXCEPT ![t] = "propagated"]
         /\ UNCHANGED resultado

Falla(t, e) ==
    IF e \in SubclasesDeException
    THEN /\ pc' = [pc EXCEPT ![t] = "returned"]
         /\ resultado' = [resultado EXCEPT ![t] = [NoResultado EXCEPT !.tipo = "error", !.e = e]]
    ELSE /\ pc' = [pc EXCEPT ![t] = "propagated"]
         /\ UNCHANGED resultado

Cmd(c, id, name, ok) == [cmd |-> c, id |-> id, name |-> name, ok |-> ok]

\* lines 478-510: the route handler; it starts the background thread or gives up
start_event(t) ==
    /\ pc[t] = "idle"
    /\ IF ~csv_exists
       THEN /\ pc' = [pc EXCEPT ![t] = "not_started"]
            /\ UNCHANGED config
       ELSE LET eventos == listar_eventos(csv_rows)
                i == PrimerIndice(eventos, nombre_req[t])
                p == int_str(eventos[i].port)
                b == int_str(eventos[i].bitrate)
            IN  IF i = 0 \/ ~p.ok \/ ~b.ok
                THEN /\ pc' = [pc EXCEPT ![t] = "not_started"]
                     /\ UNCHANGED config
                ELSE /\ config' = [config EXCEPT ![t] =
                            [nombre |-> eventos[i].name,
                             titulo |-> eventos[i].title,
                             puerto |-> p.val,
                             tracker |-> eventos[i].tracker,
                             sources |-> eventos[i].sources,
                             host |-> eventos[i].host,
                             bitrate |-> b.val,
                             token |-> eventos[i].service_access_token,
                             content_id |-> eventos[i].content_id,
                             docker_active |-> eventos[i].docker_active]]
                     /\ pc' = [pc EXCEPT ![t] = "validar"]
    /\ UNCHANGED <<store_vars, validator_vars, docker_vars, vol_vars>>
    /\ UNCHANGED <<init_vars, web, solapado, sin_registro, nombre_req, contenedor_id, eliminados, comando, poll_vars, content_id,
                   eventos_l, resultado, cmds, run_info, runs>>

\* Validating without the early return: the violations are logged and the request goes on
Validar_sin_return(t) ==
    /\ pc[t] = "validar"
    /\ pc' = [pc EXCEPT ![t] = "find"]
    /\ UNCHANGED resultado
    /\ UNCHANGED <<store_vars, validator_vars, docker_vars, vol_vars>>
    /\ UNCHANGED <<init_vars, web, solapado, sin_registro, nombre_req, config, contenedor_id, eliminados, comando, poll_vars,
                   content_id, eventos_l, cmds, run_info, runs>>

\* Validating that also rejects a configuration without a source flagged valid,
\* before anything is reconciled
Validar_con_fuentes(t) ==
    /\ pc[t] = "validar"
    /\ LET errores == validar(config[t]) IN
       IF errores # <<>>
       THEN /\ resultado' = [resultado EXCEPT ![t] =
                    [NoResultado EXCEPT !.tipo = "validacion", !.errores = errores]]
            /\ pc' = [pc EXCEPT ![t] = "returned"]
       ELSE IF \A i \in 1..Len(config[t].sources) : ~config[t].sources[i].valid
       THEN Falla(t, "ValueError")
       ELSE /\ pc' = [pc EXCEPT ![t] = "find"]
            /\ UNCHANGED resultado
    /\ UNCHANGED <<store_vars, validator_vars, docker_vars, vol_vars>>
    /\ UNCHANGED <<init_vars, web, solapado, sin_registro, nombre_req, config, contenedor_id, eliminados, comando, poll_vars,
                   content_id, eventos_l, cmds, run_info, runs>>

\* lines 342-347: Validating
Validar(t) ==
    /\ pc[t] = "validar"
    /\ LET errores == validar(config[t]) IN
       IF errores # <<>>
       THEN /\ resultado' = [resultado EXCEPT ![t] =
                    [NoResultado EXCEPT !.tipo = "validacion", !.errores = errores]]
            /\ pc' = [pc EXCEPT ![t] = "returned"]
       ELSE /\ pc' = [pc EXCEPT ![t] = "find"]
            /\ UNCHANGED resultado
    /\ UNCHANGED <<store_vars, validator_vars, docker_vars, vol_vars>>
    /\ UNCHANGED <<init_vars, web, solapado, sin_registro, nombre_req, config, contenedor_id, eliminados, comando, poll_vars,
                   content_id, eventos_l, cmds, run_info, runs>>

\* Reconciling that never sees a container: the listing is taken as empty
Find_sin_contenedor(t) ==
    /\ pc[t] = "find"
    /\ \E ok \in BOOLEAN :
        /\ cmds' = [cmds EXCEPT ![t] = Append(@, Cmd("ps_a", 0, Cat(config[t].nombre), ok))]
        /\ IF ~ok
           THEN Falla(t, "CalledProcessError")
           ELSE /\ pc' = [pc EXCEPT ![t] = "limpiar"]
                /\ UNCHANGED resultado
    /\ UNCHANGED contenedor_id
    /\ UNCHANGED <<store_vars, validator_vars, docker_vars, vol_vars>>
    /\ UNCHANGED <<init_vars, web, solapado, sin_registro, nombre_req, config, eliminados, comando, poll_vars, content_id,
                   eventos_l, run_info, runs>>

\* lines 185-193 (called at 348): docker ps -a --filter name=^<nombre>$
Find(t) ==
    /\ pc[t] = "find"
    /\ \E ok \in BOOLEAN :
        LET nombre == Cat(config[t].nombre)
            ids == {c.id : c \in {x \in containers : x.name = nombre}}
            id == IF ids = {} THEN 0 ELSE CHOOSE i \in ids : TRUE
        IN  /\ cmds' = [cmds EXCEPT ![t] = Append(@, Cmd("ps_a", IF ok THEN id ELSE 0, nombre, ok))]
            /\ IF ~ok
               THEN /\ Falla(t, "CalledProcessError")
                    /\ UNCHANGED contenedor_id
               ELSE IF ids = {}
               THEN /\ pc' = [pc EXCEPT ![t] = "limpiar"]
                    /\ UNCHANGED <<contenedor_id, resultado>>
               ELSE /\ contenedor_id' = [contenedor_id EXCEPT ![t] = id]
                    /\ pc' = [pc EXCEPT ![t] = "stop"]
                    /\ UNCHANGED resultado
    /\ UNCHANGED <<store_vars, validator_vars, docker_vars, vol_vars>>
    /\ UNCHANGED <<init_vars, web, solapado, sin_registro, nombre_req, config, eliminados, comando, poll_vars, content_id,
                   eventos_l, run_info, runs>>

\* the variant of the step above that goes on without removing the container
parar_contenedor_sin_borrar(t) ==
    /\ pc[t] = "stop"
    /\ \E ok \in BOOLEAN :
        LET hit == {c \in containers : c.id = contenedor_id[t]}
            done == ok /\ hit # {}
        IN  /\ cmds' = [cmds EXCEPT ![t] = Append(@, Cmd("stop", contenedor_id[t], "", done))]
            /\ IF done
               THEN /\ containers' = (containers \ hit)
                                     \cup {[c EXCEPT !.estado = "exited"] : c \in hit}
                    /\ pc' = [pc EXCEPT ![t] = "limpiar"]
                    /\ UNCHANGED resultado
               ELSE /\ Falla(t, "RuntimeError")
                    /\ UNCHANGED containers
    /\ UNCHANGED <<store_vars, validator_vars, next_id, vol_vars>>
    /\ UNCHANGED <<init_vars, web, solapado, sin_registro, nombre_req, config, contenedor_id, eliminados, comando, poll_vars,
                   content_id, eventos_l, run_info, runs>>

\* lines 204-215 (called at 194): docker stop <id>
parar_contenedor(t) ==
    /\ pc[t] = "stop"
    /\ \E ok \in BOOLEAN :
        LET hit == {c \in containers : c.id = contenedor_id[t]}
            done == ok /\ hit # {}
        IN  /\ cmds' = [cmds EXCEPT ![t] = Append(@, Cmd("stop", contenedor_id[t], "", done))]
            /\ IF done
               THEN /\ containers' = (containers \ hit)
                                     \cup {[c EXCEPT !.estado = "exited"] : c \in hit}
                    /\ pc' = [pc EXCEPT ![t] = "rm"]
                    /\ UNCHANGED resultado
               ELSE /\ Falla(t, "RuntimeError")
                    /\ UNCHANGED containers
    /\ UNCHANGED <<store_vars, validator_vars, next_id, vol_vars>>
    /\ UNCHANGED <<init_vars, web, solapado, sin_registro, nombre_req, config, contenedor_id, eliminados, comando, poll_vars,
                   content_id, eventos_l, run_info, runs>>

\* borrar_contenedor that only logs a failed `docker rm`: the request goes on
borrar_contenedor_tragado(t) ==
    /\ pc[t] = "rm"
    /\ \E ok \in BOOLEAN :
        LET hit == {c \in containers : c.id = contenedor_id[t] /\ c.estado # "running"}
            done == ok /\ hit # {}
        IN  /\ cmds' = [cmds EXCEPT ![t] = Append(@, Cmd("rm", contenedor_id[t], "", done))]
            /\ containers' = IF done THEN containers \ hit ELSE containers
            /\ pc' = [pc EXCEPT ![t] = "limpiar"]
            /\ UNCHANGED resultado
    /\ UNCHANGED <<store_vars, validator_vars, next_id, vol_vars>>
    /\ UNCHANGED <<init_vars, web, solapado, sin_registro, nombre_req, config, contenedor_id, eliminados, comando, poll_vars,
                   content_id, eventos_l, run_info, runs>>

\* lines 217-228 (called at 195): docker rm <id>; a running container is not removed
borrar_contenedor(t) ==
    /\ pc[t] = "rm"
    /\ \E ok \in BOOLEAN :
        LET hit == {c \in containers : c.id = contenedor_id[t] /\ c.estado # "running"}
            done == ok /\ hit # {}
        IN  /\ cmds' = [cmds EXCEPT ![t] = Append(@, Cmd("rm", contenedor_id[t], "", done))]
            /\ IF done
               THEN /\ containers' = containers \ hit
                    /\ pc' = [pc EXCEPT ![t] = "limpiar"]
                    /\ UNCHANGED resultado
               ELSE /\ Falla(t, "RuntimeError")
                    /\ UNCHANGED containers
    /\ UNCHANGED <<store_vars, validator_vars, next_id, vol_vars>>
    /\ UNCHANGED <<init_vars, web, solapado, sin_registro, nombre_req, config, contenedor_id, eliminados, comando, poll_vars,
                   content_id, eventos_l, run_info, runs>>

extensiones_permitidas == {".acelive", ".sauth"}

\* CleaningVolume without the allow-list: every regular file of the volume is a candidate
limpiar_archivos_temporales_sin_lista(t) ==
    /\ pc[t] = "limpiar"
    /\ LET nombre_volumen == "acestreamengine_" \o Cat(config[t].nombre)
           candidatos == {f \in vol_archivos : f.vol = nombre_volumen /\ f.is_file}
       IN  IF plataforma \notin {"Windows", "Linux"} \/ nombre_volumen \notin vol_existe
           THEN /\ eliminados' = [eliminados EXCEPT ![t] = 0]
                /\ UNCHANGED vol_archivos
           ELSE \E borrados \in SUBSET candidatos : \E aborta \in BOOLEAN :
                /\ vol_archivos' = vol_archivos \ borrados
                /\ eliminados' = [eliminados EXCEPT ![t] =
                                      IF aborta THEN 0 ELSE Cardinality(borrados)]
    /\ pc' = [pc EXCEPT ![t] = "construir"]
    /\ UNCHANGED <<store_vars, validator_vars, docker_vars, plataforma, vol_existe>>
    /\ UNCHANGED <<init_vars, web, solapado, sin_registro, nombre_req, config, contenedor_id, comando, poll_vars, content_id,
                   eventos_l, resultado, cmds, run_info, runs>>

\* lines 230-260 (called at 349-351): CleaningVolume.  `borrados` are the files whose
\* unlink succeeded; `aborta` is an error outside the per-file try (line 258)
limpiar_archivos_temporales(t) ==
    /\ pc[t] = "limpiar"
    /\ LET nombre_volumen == "acestreamengine_" \o Cat(config[t].nombre)
           candidatos == {f \in vol_archivos :
                             /\ f.vol = nombre_volumen
                             /\ f.is_file
                             /\ f.suffix \notin extensiones_permitidas}
       IN  IF plataforma \notin {"Windows", "Linux"} \/ nombre_volumen \notin vol_existe
           THEN /\ eliminados' = [eliminados EXCEPT ![t] = 0]
                /\ UNCHANGED vol_archivos
           ELSE \E borrados \in SUBSET candidatos : \E aborta \in BOOLEAN :
                /\ vol_archivos' = vol_archivos \ borrados
                /\ eliminados' = [eliminados EXCEPT ![t] =
                                      IF aborta THEN 0 ELSE Cardinality(borrados)]
    /\ pc' = [pc EXCEPT ![t] = "construir"]
    /\ UNCHANGED <<store_vars, validator_vars, docker_vars, plataforma, vol_existe>>
    /\ UNCHANGED <<init_vars, web, solapado, sin_registro, nombre_req, config, contenedor_id, comando, poll_vars, content_id,
                   eventos_l, resultado, cmds, run_info, runs>>

\* Building that does not raise when no source can be started: run is issued anyway
Construir_sin_raise(t) ==
    /\ pc[t] = "construir"
    /\ comando' = [comando EXCEPT ![t] = _construir_comando_docker(config[t]).comando]
    /\ pc' = [pc EXCEPT ![t] = "run"]
    /\ UNCHANGED resultado
    /\ UNCHANGED <<store_vars, validator_vars, docker_vars, vol_vars>>
    /\ UNCHANGED <<init_vars, web, solapado, sin_registro, nombre_req, config, contenedor_id, eliminados, poll_vars, content_id,
                   eventos_l, cmds, run_info, runs>>

\* lines 353-355: Building
Construir(t) ==
    /\ pc[t] = "construir"
    /\ LET r == _construir_comando_docker(config[t]) IN
       IF r.ok
       THEN /\ comando' = [comando EXCEPT ![t] = r.comando]
            /\ pc' = [pc EXCEPT ![t] = "run"]
            /\ UNCHANGED resultado
       ELSE /\ Falla(t, "ValueError")
            /\ UNCHANGED comando
    /\ UNCHANGED <<store_vars, validator_vars, docker_vars, vol_vars>>
    /\ UNCHANGED <<init_vars, web, solapado, sin_registro, nombre_req, config, contenedor_id, eliminados, poll_vars, content_id,
                   eventos_l, cmds, run_info, runs>>

\* the value that follows the first `flag` in an argument list
ValorDe(args, flag) ==
    LET at == {i \in 1..(Len(args) - 1) : args[i] = flag} IN
    args[(CHOOSE i \in at : \A k \in at : i <= k) + 1]

RunOutcomes == {"ok", "fail", "fail_created"}

\* subprocess.run(comando) without check=True: the exit status is ignored
run_sin_check(t, res) ==
    /\ pc' = [pc EXCEPT ![t] = "ps"]
    /\ UNCHANGED resultado

\* what subprocess.run(comando, check=True) does with the exit status of docker run
run_check(t, res) ==
    IF res = "ok"
    THEN /\ pc' = [pc EXCEPT ![t] = "ps"]
         /\ UNCHANGED resultado
    ELSE Falla(t, "CalledProcessError")

\* lines 356-357: Launching.  The runtime refuses a name that is in use; otherwise
\* the run succeeds, fails, or fails after the container was created
Run(t) ==
    /\ pc[t] = "run"
    /\ \E out \in RunOutcomes :
        LET nombre == ValorDe(comando[t], "--name")
            existe == \E c \in containers : c.name = nombre
            res == IF existe THEN "conflicto" ELSE out
            crea == res \in {"ok", "fail_created"}
        IN  /\ runs' = runs + 1
            /\ run_info' = [run_info EXCEPT ![t] =
                    [orden |-> runs + 1, res |-> res,
                     carrera |-> /\ pc[Otro(t)] \in {"limpiar", "construir", "run"}
                                 /\ config[Otro(t)].nombre = config[t].nombre]]
            /\ cmds' = [cmds EXCEPT ![t] = Append(@, Cmd("run", 0, nombre, res = "ok"))]
            /\ containers' =
                    IF crea
                    THEN containers \cup
                         {[id |-> next_id, name |-> nombre,
                           estado |-> IF res = "ok" THEN "running" ELSE "created"]}
                    ELSE containers
            /\ next_id' = IF crea THEN next_id + 1 ELSE next_id
            /\ run_check(t, res)
    /\ UNCHANGED <<store_vars, validator_vars, vol_vars>>
    /\ UNCHANGED <<init_vars, web, solapado, sin_registro, nombre_req, config, contenedor_id, eliminados, comando, poll_vars,
                   content_id, eventos_l>>

\* lines 360-368: the settle delay, docker ps by name, the call of obtener_monitor
Ps(t) ==
    /\ pc[t] = "ps"
    /\ \E ok \in BOOLEAN :
        LET nombre == Cat(config[t].nombre)
            ids == {c.id : c \in {x \in containers : x.name = nombre /\ x.estado = "running"}}
            id == IF ids = {} THEN 0 ELSE CHOOSE i \in ids : TRUE
        IN  /\ cmds' = [cmds EXCEPT ![t] = Append(@, Cmd("ps", IF ok THEN id ELSE 0, nombre, ok))]
            /\ IF ~ok
               THEN /\ Falla(t, "CalledProcessError")
                    /\ UNCHANGED <<contenedor_id, poll_vars>>
               ELSE /\ contenedor_id' = [contenedor_id EXCEPT ![t] = id]
                    /\ intentos' = [intentos EXCEPT ![t] = IntentosPorDefecto]
                    /\ intento' = [intento EXCEPT ![t] = 0]
                    /\ http_calls' = [http_calls EXCEPT ![t] = 0]
                    /\ no_listos' = [no_listos EXCEPT ![t] = 0]
                    /\ ultimo_id' = [ultimo_id EXCEPT ![t] = ""]
                    /\ pc' = [pc EXCEPT ![t] = "poll"]
                    /\ UNCHANGED resultado
    /\ UNCHANGED <<store_vars, validator_vars, docker_vars, vol_vars>>
    /\ UNCHANGED <<init_vars, web, solapado, sin_registro, nombre_req, config, eliminados, comando, content_id, eventos_l,
                   run_info, runs>>

-----------------------------------------------------------------------------
(* Readiness Poller: obtener_monitor (appy.py lines 300-338) *)

Resp(tr, st, js, has, cid) ==
    [transporte |-> tr, status |-> st, json |-> js, tiene_id |-> has, content_id |-> cid]

ContentIds == {"X123", "Y456"}

\* what the monitor endpoint may answer to one GET
Respuestas ==
    { Resp("error", 0, "none", FALSE, ""),          \* requests.RequestException
      Resp("ok", 503, "none", FALSE, ""),           \* status other than 200
      Resp("ok", 200, "invalido", FALSE, ""),       \* body that is not JSON
      Resp("ok", 200, "otro", FALSE, ""),           \* JSON body that is not an object
      Resp("ok", 200, "objeto", FALSE, ""),         \* object without content_id
      Resp("ok", 200, "objeto", TRUE, ""),          \* empty content_id
      Resp("ok", 200, "objeto", TRUE, "No encontrado") }
    \cup {Resp("ok", 200, "objeto", TRUE, c) : c \in ContentIds}

\* the endpoint has not published a content identifier in this answer: no answer,
\* a status other than 200, an undecodable body, or an object whose content_id is
\* absent, empty or the sentinel (counted in `no_listos`, whatever the loop does)
SinIdentificador(r) ==
    \/ r.transporte = "error"
    \/ r.status # 200
    \/ r.json = "invalido"
    \/ r.json = "objeto" /\ (~r.tiene_id \/ r.content_id \in {"", "No encontrado"})

\* the loop without the sentinel test of line 320: "No encontrado" counts as an identifier
evaluar_respuesta_sin_centinela(r) ==
    IF r.transporte = "error" THEN "no_listo"
    ELSE IF r.status = 200
    THEN IF r.json = "invalido" THEN "no_listo"
         ELSE IF r.json = "otro" THEN "AttributeError"
         ELSE IF r.tiene_id /\ r.content_id # ""
         THEN "listo"
         ELSE "no_listo"
    ELSE "no_listo"

\* lines 308-333: what one iteration of the loop does with the response
evaluar_respuesta(r) ==
    IF r.transporte = "error" THEN "no_listo"
    ELSE IF r.status = 200
    THEN IF r.json = "invalido" THEN "no_listo"
         ELSE IF r.json = "otro" THEN "AttributeError"
         ELSE IF r.tiene_id /\ r.content_id # "" /\ r.content_id # "No encontrado"
         THEN "listo"
         ELSE "no_listo"
    ELSE "no_listo"

\* line 307: `for intento in range(intentos)` has another iteration
quedan_intentos_uno_mas(i, n) == i <= n

quedan_intentos(i, n) == i < n

\* a polling loop that does not count its attempts: it asks again until it is answered
obtener_monitor_sin_cuenta(t) ==
    /\ pc[t] = "poll"
    /\ \E r \in Respuestas :
        /\ ultimo_id' = [ultimo_id EXCEPT ![t] = r.content_id]
        /\ UNCHANGED <<intentos, intento, http_calls, no_listos>>
        /\ IF evaluar_respuesta(r) = "listo"
           THEN /\ content_id' = [content_id EXCEPT ![t] = r.content_id]
                /\ pc' = [pc EXCEPT ![t] = "info"]
                /\ UNCHANGED resultado
           ELSE IF evaluar_respuesta(r) = "no_listo"
           THEN UNCHANGED <<pc, content_id, resultado>>
           ELSE /\ Falla(t, "AttributeError")
                /\ UNCHANGED content_id
    /\ UNCHANGED <<store_vars, validator_vars, docker_vars, vol_vars>>
    /\ UNCHANGED <<init_vars, web, solapado, sin_registro, nombre_req, config, contenedor_id, eliminados, comando, eventos_l,
                   cmds, run_info, runs>>

\* lines 307-338: one iteration of the polling loop, or the failure after it; on
\* success `content_id` holds the content_id of the dict returned (read at line 369)
obtener_monitor(t) ==
    /\ pc[t] = "poll"
    /\ IF ~quedan_intentos(intento[t], intentos[t])
       THEN /\ Falla(t, "RuntimeError")
            /\ UNCHANGED <<poll_vars, content_id>>
       ELSE \E r \in Respuestas :
            /\ http_calls' = [http_calls EXCEPT ![t] = @ + 1]
            /\ ultimo_id' = [ultimo_id EXCEPT ![t] = r.content_id]
            /\ no_listos' = [no_listos EXCEPT ![t] = IF SinIdentificador(r) THEN @ + 1 ELSE @]
            /\ UNCHANGED intentos
            /\ IF evaluar_respuesta(r) = "listo"
               THEN /\ content_id' = [content_id EXCEPT ![t] = r.content_id]
                    /\ pc' = [pc EXCEPT ![t] = "info"]
                    /\ UNCHANGED <<intento, resultado>>
               ELSE IF evaluar_respuesta(r) = "no_listo"
               THEN /\ intento' = [intento EXCEPT ![t] = @ + 1]
                    /\ UNCHANGED <<pc, content_id, resultado>>
               ELSE /\ Falla(t, "AttributeError")
                    /\ UNCHANGED <<intento, content_id>>
    /\ UNCHANGED <<store_vars, validator_vars, docker_vars, vol_vars>>
    /\ UNCHANGED <<init_vars, web, solapado, sin_registro, nombre_req, config, contenedor_id, eliminados, comando, eventos_l,
                   cmds, run_info, runs>>

\* lines 368-370: obtener_monitor has returned and its locals are gone
Info(t) ==
    /\ pc[t] = "info"
    /\ intentos' = [intentos EXCEPT ![t] = 0]
    /\ intento' = [intento EXCEPT ![t] = 0]
    /\ http_calls' = [http_calls EXCEPT ![t] = 0]
    /\ no_listos' = [no_listos EXCEPT ![t] = 0]
    /\ ultimo_id' = [ultimo_id EXCEPT ![t] = ""]
    /\ pc' = [pc EXCEPT ![t] = "cid_read"]
    /\ UNCHANGED <<store_vars, validator_vars, docker_vars, vol_vars>>
    /\ UNCHANGED <<init_vars, web, solapado, sin_registro, nombre_req, config, contenedor_id, eliminados, comando, content_id,
                   eventos_l, resultado, cmds, run_info, runs>>

-----------------------------------------------------------------------------
(* Persisting (appy.py lines 371-374): two read-all / rewrite-all cycles *)


\* lines 168-172: listar_eventos and the update of the local list
_actualizar_content_id_read(t) ==
    /\ pc[t] = "cid_read"
    /\ solapado' = (solapado \/ pc[Otro(t)] \in EnCiclo \/ v_pc \in VEnCiclo)
    /\ sin_registro' = [sin_registro EXCEPT ![t] =
            @ \/ (csv_exists /\ PrimerIndice(listar_eventos(csv_rows), config[t].nombre) = 0)]
    /\ \E ok \in BOOLEAN :
        IF ok /\ csv_exists
        THEN /\ eventos_l' = [eventos_l EXCEPT ![t] =
                    con_content_id(listar_eventos(csv_rows), config[t].nombre, content_id[t])]
             /\ pc' = [pc EXCEPT ![t] = "cid_open"]
             /\ UNCHANGED resultado
        ELSE /\ Falla(t, "OSError")
             /\ UNCHANGED eventos_l
    /\ UNCHANGED <<store_vars, validator_vars, docker_vars, vol_vars>>
    /\ UNCHANGED <<init_vars, web, nombre_req, config, contenedor_id, eliminados, comando, poll_vars,
                   content_id, cmds, run_info, runs>>

\* lines 173 and 147: open(csv_path, 'w') creates or truncates the file
_actualizar_content_id_open(t) ==
    /\ pc[t] = "cid_open"
    /\ \E ok \in BOOLEAN :
        IF ok
        THEN /\ csv_exists' = TRUE
             /\ csv_rows' = <<>>
             /\ pc' = [pc EXCEPT ![t] = "cid_write"]
             /\ UNCHANGED resultado
        ELSE /\ Falla(t, "OSError")
             /\ UNCHANGED store_vars
    /\ UNCHANGED <<validator_vars, docker_vars, vol_vars>>
    /\ UNCHANGED <<init_vars, web, solapado, sin_registro, nombre_req, config, contenedor_id, eliminados, comando, poll_vars,
                   content_id, eventos_l, cmds, run_info, runs>>

\* lines 148-165: header and rows written, the file closed, the function returns
_actualizar_content_id_write(t) ==
    /\ pc[t] = "cid_write"
    /\ csv_rows' = _escribir_eventos(eventos_l[t])
    /\ eventos_l' = [eventos_l EXCEPT ![t] = <<>>]
    /\ pc' = [pc EXCEPT ![t] = "act_read"]
    /\ UNCHANGED <<csv_exists, validator_vars, docker_vars, vol_vars>>
    /\ UNCHANGED <<init_vars, web, solapado, sin_registro, nombre_req, config, contenedor_id, eliminados, comando, poll_vars,
                   content_id, resultado, cmds, run_info, runs>>

\* lines 176-180: listar_eventos and the update of the local list
_actualizar_docker_active_read(t) ==
    /\ pc[t] = "act_read"
    /\ solapado' = (solapado \/ pc[Otro(t)] \in EnCiclo \/ v_pc \in VEnCiclo)
    /\ sin_registro' = [sin_registro EXCEPT ![t] =
            @ \/ (csv_exists /\ PrimerIndice(listar_eventos(csv_rows), config[t].nombre) = 0)]
    /\ \E ok \in BOOLEAN :
        IF ok /\ csv_exists
        THEN /\ eventos_l' = [eventos_l EXCEPT ![t] =
                    con_docker_active(listar_eventos(csv_rows), config[t].nombre, TRUE)]
             /\ pc' = [pc EXCEPT ![t] = "act_open"]
             /\ UNCHANGED resultado
        ELSE /\ Falla(t, "OSError")
             /\ UNCHANGED eventos_l
    /\ UNCHANGED <<store_vars, validator_vars, docker_vars, vol_vars>>
    /\ UNCHANGED <<init_vars, web, nombre_req, config, contenedor_id, eliminados, comando, poll_vars,
                   content_id, cmds, run_info, runs>>

\* lines 181 and 147
_actualizar_docker_active_open(t) ==
    /\ pc[t] = "act_open"
    /\ \E ok \in BOOLEAN :
        IF ok
        THEN /\ csv_exists' = TRUE
             /\ csv_rows' = <<>>
             /\ pc' = [pc EXCEPT ![t] = "act_write"]
             /\ UNCHANGED resultado
        ELSE /\ Falla(t, "OSError")
             /\ UNCHANGED store_vars
    /\ UNCHANGED <<validator_vars, docker_vars, vol_vars>>
    /\ UNCHANGED <<init_vars, web, solapado, sin_registro, nombre_req, config, contenedor_id, eliminados, comando, poll_vars,
                   content_id, eventos_l, cmds, run_info, runs>>

\* lines 148-165, then line 374: the success message
_actualizar_docker_active_write(t) ==
    /\ pc[t] = "act_write"
    /\ csv_rows' = _escribir_eventos(eventos_l[t])
    /\ resultado' = [resultado EXCEPT ![t] =
            [NoResultado EXCEPT !.tipo = "ok", !.content_id = content_id[t]]]
    /\ eventos_l' = [eventos_l EXCEPT ![t] = <<>>]
    /\ pc' = [pc EXCEPT ![t] = "returned"]
    /\ UNCHANGED <<csv_exists, validator_vars, docker_vars, vol_vars>>
    /\ UNCHANGED <<init_vars, web, solapado, sin_registro, nombre_req, config, contenedor_id, eliminados, comando, poll_vars,
                   content_id, cmds, run_info, runs>>

\* lines 340-377: the steps of one start request, after start_event built its config
iniciar_docker_evento(t) ==
    \/ Validar(t)
    \/ Find(t)
    \/ parar_contenedor(t)
    \/ borrar_contenedor(t)
    \/ limpiar_archivos_temporales(t)
    \/ Construir(t)
    \/ Run(t)
    \/ Ps(t)
    \/ obtener_monitor(t)
    \/ Info(t)
    \/ _actualizar_content_id_read(t)
    \/ _actualizar_content_id_open(t)
    \/ _actualizar_content_id_write(t)
    \/ _actualizar_docker_active_read(t)
    \/ _actualizar_docker_active_open(t)
    \/ _actualizar_docker_active_write(t)

-----------------------------------------------------------------------------
(* Initial states *)

Fila(name, title, port, sources, host, bitrate, cid, active) ==
    [name |-> name, title |-> title, port |-> port, service_access_token |-> "12345",
     tracker |-> "udp://tracker", sources |-> sources, host |-> host,
     bitrate |-> bitrate, content_id |-> cid, docker_active |-> active]

Fuente(url, valid) == [source |-> url, valid |-> valid]

NombreD == <<"d">>
NombreE == <<"e">>
EventNames == <<NombreD, NombreE>>

ValidatorOff ==
    /\ v_pc = "off"
    /\ v_found = FALSE
    /\ v_eventos = <<>>
    /\ v_i = 0
    /\ v_j = 0
    /\ v_valid_found = FALSE
    /\ v_writes = 0
    /\ probe = <<>>

NoDocker ==
    /\ containers = {}
    /\ next_id = 1

NoVolumes ==
    /\ plataforma = "Linux"
    /\ vol_existe = {}
    /\ vol_archivos = {}

\* no web request has touched the store
NoWeb == [pc |-> "idle", op |-> "none", cfg |-> NoConfig, l |-> <<>>, antes |-> <<>>,
          hallado |-> FALSE, res |-> "none", n |-> 0]

\* the locals of every request before it runs
RequestLocals ==
    /\ contenedor_id = [t \in Threads |-> 0]
    /\ eliminados = [t \in Threads |-> 0]
    /\ comando = [t \in Threads |-> <<>>]
    /\ intento = [t \in Threads |-> 0]
    /\ http_calls = [t \in Threads |-> 0]
    /\ no_listos = [t \in Threads |-> 0]
    /\ ultimo_id = [t \in Threads |-> ""]
    /\ content_id = [t \in Threads |-> ""]
    /\ eventos_l = [t \in Threads |-> <<>>]
    /\ resultado = [t \in Threads |-> NoResultado]
    /\ cmds = [t \in Threads |-> <<>>]
    /\ run_info = [t \in Threads |-> NoRun]
    /\ runs = 0
    /\ solapado = FALSE
    /\ sin_registro = [t \in Threads |-> FALSE]
    /\ csv_rows0 = csv_rows
    /\ vol_archivos0 = vol_archivos
    /\ web = NoWeb

\* the request of t1 alone, at `label`
Solo(label) == [t \in Threads |-> IF t = "t1" THEN label ELSE "off"]

(* -- Source Validator runs -- *)

ValURLs == {<<" ">>, <<"a">>}

\* a source entry together with what ffprobe would do for it; a blank source is
\* never probed, so one outcome stands for all
AnnEntries ==
    {e \in [source : ValURLs, valid : BOOLEAN, outcome : ProbeOutcomes] :
        strip(e.source) = <<>> => e.outcome = "exit1"}

AnnLists == UNION {[1..n -> AnnEntries] : n \in 0..MaxSources}

RowSpecs ==
    {[kind |-> "json", ann |-> l] : l \in AnnLists}
    \cup {[kind |-> "vacio", ann |-> <<>>], [kind |-> "malformado", ann |-> <<>>]}

\* what the records before the last one hold: no sources text, undecodable text,
\* an empty list, a list whose source probes successfully, one whose source does
\* not, and one whose first probe cannot be run while the second succeeds
PrimerasFilas ==
    { [kind |-> "vacio", ann |-> <<>>],
      [kind |-> "malformado", ann |-> <<>>],
      [kind |-> "json", ann |-> <<>>],
      [kind |-> "json", ann |-> <<[source |-> <<"a">>, valid |-> FALSE, outcome |-> "exit0"]>>],
      [kind |-> "json", ann |-> <<[source |-> <<"a">>, valid |-> TRUE, outcome |-> "exit1"]>>],
      [kind |-> "json", ann |-> <<[source |-> <<"a">>, valid |-> TRUE, outcome |-> "oserror"],
                                  [source |-> <<"a">>, valid |-> FALSE, outcome |-> "exit0"]>>] }

\* stores of up to Len(EventNames) records; the last record ranges over RowSpecs
StoreSpecs ==
    {<<>>} \cup {<<r>> : r \in RowSpecs}
           \cup {<<q, r>> : q \in PrimerasFilas, r \in RowSpecs}

SourcesText(rs) ==
    CASE rs.kind = "json" ->
            json_dumps([j \in 1..Len(rs.ann) |-> Fuente(rs.ann[j].source, rs.ann[j].valid)])
      [] rs.kind = "vacio" -> <<>>
      [] rs.kind = "malformado" -> MalformedText(Fuente(<<"a">>, TRUE))

InitValidator ==
    /\ \E ss \in StoreSpecs :
        /\ csv_rows = [i \in 1..Len(ss) |->
                Fila(EventNames[i], <<"T">>, str_int(8642), SourcesText(ss[i]), <<"h">>,
                     str_int(697587), IF i = 1 THEN "" ELSE "OLD",
                     IF i = 1 THEN "False" ELSE "True")]
        /\ probe = [i \in 1..Len(ss) |-> [j \in 1..Len(ss[i].ann) |-> ss[i].ann[j].outcome]]
        /\ csv_exists \in (IF ss = <<>> THEN BOOLEAN ELSE {TRUE})
    /\ v_pc = "start"
    /\ v_found = FALSE
    /\ v_eventos = <<>>
    /\ v_i = 0
    /\ v_j = 0
    /\ v_valid_found = FALSE
    /\ v_writes = 0
    /\ NoDocker
    /\ NoVolumes
    /\ pc = [t \in Threads |-> "off"]
    /\ nombre_req = [t \in Threads |-> <<>>]
    /\ config = [t \in Threads |-> NoConfig]
    /\ intentos = [t \in Threads |-> 0]
    /\ RequestLocals

check_sources == VStart \/ VEvent \/ VSource \/ VOpen \/ VWrite

SpecValidator == InitValidator /\ [][check_sources]_vars

(* -- the Command Builder alone -- *)

BuilderURLs == {<<>>, <<"a">>, <<"b">>}

BuilderSources ==
    UNION {[1..n -> [source : BuilderURLs, valid : BOOLEAN]] : n \in 0..MaxSources}

ConfigBase ==
    [NoConfig EXCEPT !.nombre = NombreD, !.titulo = <<"T">>, !.puerto = 8642,
                     !.tracker = "udp://tracker", !.host = <<"h">>, !.bitrate = 697587,
                     !.token = "12345"]

InitBuilder ==
    /\ csv_exists = TRUE
    /\ csv_rows = <<>>
    /\ ValidatorOff
    /\ NoDocker
    /\ NoVolumes
    /\ pc = Solo("construir")
    /\ nombre_req = [t \in Threads |-> NombreD]
    /\ \E s \in BuilderSources : \E p \in {80, 1024, 8642, 65535} :
        config = [t \in Threads |->
                    IF t = "t1" THEN [ConfigBase EXCEPT !.sources = s, !.puerto = p]
                    ELSE NoConfig]
    /\ intentos = [t \in Threads |-> 0]
    /\ RequestLocals

SpecBuilder == InitBuilder /\ [][Construir("t1")]_vars

(* -- EventoConfig.validar alone -- *)

\* configurations on both sides of every rule of validar
InitValidar ==
    /\ csv_exists = TRUE
    /\ csv_rows = <<>>
    /\ ValidatorOff
    /\ NoDocker
    /\ NoVolumes
    /\ pc = Solo("validar")
    /\ nombre_req = [t \in Threads |-> NombreD]
    /\ \E n \in {<<>>, <<"d">>, <<"d", " ">>, <<"d", "_", "1">>},
          p \in {0, PuertoMin - 1, PuertoMin, 8642, PuertoMax, PuertoMax + 1},
          h \in {<<>>, <<"h">>, <<"-">>, <<"1", ".", "2", ".", "3", ".", "4">>,
                 <<":", ":", "1">>, <<"h", " ">>},
          b \in {0 - 1, 0, 697587, BitrateMax, BitrateMax + 1},
          ti \in {<<>>, <<" ">>, <<"T">>},
          s \in {<<>>,
                 <<[source |-> <<>>, valid |-> FALSE]>>,
                 <<[source |-> <<" ">>, valid |-> TRUE]>>,
                 <<[source |-> <<"a">>, valid |-> FALSE]>>,
                 <<[source |-> <<>>, valid |-> FALSE], [source |-> <<"a">>, valid |-> TRUE]>>} :
        config = [t \in Threads |->
                    IF t = "t1"
                    THEN [ConfigBase EXCEPT !.nombre = n, !.puerto = p, !.host = h,
                                            !.bitrate = b, !.titulo = ti, !.sources = s]
                    ELSE NoConfig]
    /\ intentos = [t \in Threads |-> 0]
    /\ RequestLocals

SpecValidar == InitValidar /\ [][Validar("t1")]_vars

(* -- the Readiness Poller alone -- *)

\* largest `intentos` a poll is called with
MaxIntentos == 6

InitPoller ==
    /\ csv_exists = TRUE
    /\ csv_rows = <<>>
    /\ ValidatorOff
    /\ NoDocker
    /\ NoVolumes
    /\ pc = Solo("poll")
    /\ nombre_req = [t \in Threads |-> NombreD]
    /\ config = [t \in Threads |-> IF t = "t1" THEN ConfigBase ELSE NoConfig]
    /\ \E n \in 0..MaxIntentos : intentos = [t \in Threads |-> IF t = "t1" THEN n ELSE 0]
    /\ RequestLocals

SpecPoller == InitPoller /\ [][obtener_monitor("t1")]_vars

(* -- one start request running alone -- *)

FA(valid) == Fuente(<<"a">>, valid)
FB(valid) == Fuente(<<"b">>, valid)

OrqSources == { <<FA(TRUE)>>, <<FA(FALSE), FB(TRUE)>>, <<FA(FALSE)>>, <<>> }

\* records of event d: startable ones, and ones with a bad port, title or sources
FilasD ==
    {Fila(NombreD, title, port, json_dumps(s), <<"h">>, str_int(697587), st[1], st[2]) :
        title \in {<<"T">>, <<" ">>},
        port \in {str_int(8642), str_int(80), <<"x">>},
        s \in OrqSources,
        st \in {<<"", "False">>, <<"OLD", "True">>}}

FilaBuenaD ==
    Fila(NombreD, <<"T">>, str_int(8642), json_dumps(<<FA(FALSE), FB(TRUE)>>), <<"h">>,
         str_int(697587), "", "False")

FilaE ==
    Fila(NombreE, <<"E">>, str_int(9000), json_dumps(<<FB(TRUE)>>),
         <<"1", ".", "2", ".", "3", ".", "4">>, str_int(0), "E1", "True")

FilaRota ==
    Fila(<<"f">>, <<"F">>, str_int(9001), MalformedText(FA(TRUE)), <<"h">>, str_int(1),
         "", "False")

OrqStores ==
    {<<d, FilaE>> : d \in FilasD}
    \cup {<<FilaE, FilaRota, d>> : d \in FilasD}
    \cup {<<d, FilaBuenaD>> : d \in FilasD}
    \cup {<<FilaE>>, <<>>}

ContD(estado) == [id |-> 1, name |-> "d", estado |-> estado]
ContE == [id |-> 2, name |-> "e", estado |-> "running"]

OrqContainers == { {}, {ContE}, {ContD("running"), ContE}, {ContD("exited")} }

VolD == "acestreamengine_d"

ArchivosD ==
    { [vol |-> VolD, nombre |-> "x.tmp", suffix |-> ".tmp", is_file |-> TRUE],
      [vol |-> VolD, nombre |-> "y.log", suffix |-> ".log", is_file |-> TRUE],
      [vol |-> VolD, nombre |-> "s.acelive", suffix |-> ".acelive", is_file |-> TRUE],
      [vol |-> VolD, nombre |-> "sub", suffix |-> "", is_file |-> FALSE] }

OrqVolumes ==
    { <<"Linux", {}, {}>>, <<"Linux", {VolD}, ArchivosD>>,
      <<"Windows", {VolD}, ArchivosD>>, <<"Darwin", {VolD}, ArchivosD>> }

Init ==
    /\ csv_rows \in OrqStores
    /\ csv_exists \in (IF csv_rows = <<>> THEN BOOLEAN ELSE {TRUE})
    /\ ValidatorOff
    /\ containers \in OrqContainers
    /\ next_id = 3
    /\ \E v \in OrqVolumes :
        /\ plataforma = v[1]
        /\ vol_existe = v[2]
        /\ vol_archivos = v[3]
    /\ pc = Solo("idle")
    /\ nombre_req = [t \in Threads |-> NombreD]
    /\ config = [t \in Threads |-> NoConfig]
    /\ intentos = [t \in Threads |-> 0]
    /\ RequestLocals

Next == start_event("t1") \/ iniciar_docker_evento("t1")

Spec == Init /\ [][Next]_vars

\* the start request with its thread running on: every call it makes returns, so the
\* step it stands at is eventually taken
SpecTermina == Spec /\ WF_vars(iniciar_docker_evento("t1"))

(* -- a run of check_sources next to one start request -- *)

InitCruce ==
    /\ csv_exists = TRUE
    /\ csv_rows = <<FilaBuenaD, FilaE>>
    /\ probe \in { << <<"exit0", "exit0">>, <<"exit1">> >>,
                   << <<"oserror", "exit0">>, <<"exit0">> >> }
    /\ v_pc = "start"
    /\ v_found = FALSE
    /\ v_eventos = <<>>
    /\ v_i = 0
    /\ v_j = 0
    /\ v_valid_found = FALSE
    /\ v_writes = 0
    /\ containers \in { {}, {ContD("running")} }
    /\ next_id = 3
    /\ NoVolumes
    /\ pc = Solo("idle")
    /\ nombre_req = [t \in Threads |-> NombreD]
    /\ config = [t \in Threads |-> NoConfig]
    /\ intentos = [t \in Threads |-> 0]
    /\ RequestLocals

NextCruce == check_sources \/ start_event("t1") \/ iniciar_docker_evento("t1")

SpecCruce == InitCruce /\ [][NextCruce]_vars

(* -- two concurrent start requests -- *)

InitConc ==
    /\ csv_exists = TRUE
    /\ csv_rows = <<FilaBuenaD, FilaE>>
    /\ ValidatorOff
    /\ containers \in { {}, {ContD("running")} }
    /\ next_id = 3
    /\ NoVolumes
    /\ pc = [t \in Threads |-> "idle"]
    /\ nombre_req \in {[t \in Threads |-> IF t = "t1" THEN NombreD ELSE n] :
                        n \in {NombreD, NombreE}}
    /\ config = [t \in Threads |-> NoConfig]
    /\ intentos = [t \in Threads |-> 0]
    /\ RequestLocals

NextConc == \E t \in Threads : start_event(t) \/ iniciar_docker_evento(t)

SpecConc == InitConc /\ [][NextConc]_vars

-----------------------------------------------------------------------------
(* The store requests of the web handlers (appy.py lines 104-144, 389-476) *)

\* most store requests one behaviour makes through the web handlers
MaxWebOps == 2

\* the row of agregar_evento with the sources written in reverse order
fila_de_config_invertida(cfg) ==
    [name |-> cfg.nombre, title |-> cfg.titulo, port |-> str_int(cfg.puerto),
     service_access_token |-> cfg.token, tracker |-> cfg.tracker,
     sources |-> json_dumps([i \in 1..Len(cfg.sources) |->
                                cfg.sources[Len(cfg.sources) + 1 - i]]),
     host |-> cfg.host,
     bitrate |-> str_int(cfg.bitrate), content_id |-> cfg.content_id,
     docker_active |-> cfg.docker_active]

\* lines 107-117: the row agregar_evento appends for a config
fila_de_config(cfg) ==
    [name |-> cfg.nombre, title |-> cfg.titulo, port |-> str_int(cfg.puerto),
     service_access_token |-> cfg.token, tracker |-> cfg.tracker,
     sources |-> json_dumps(cfg.sources), host |-> cfg.host,
     bitrate |-> str_int(cfg.bitrate), content_id |-> cfg.content_id,
     docker_active |-> cfg.docker_active]

\* the decoded sources of every record, in store order
fuentes_leidas(rows) == [i \in 1..Len(rows) |-> listar_eventos(rows)[i].sources]

\* lines 123-134: `eventos` after the loop of actualizar_evento
con_evento(eventos, cfg) ==
    LET i == PrimerIndice(eventos, cfg.nombre) IN
    IF i = 0 THEN eventos
    ELSE [eventos EXCEPT ![i] =
            [@ EXCEPT !.title = cfg.titulo, !.port = str_int(cfg.puerto),
                      !.service_access_token = cfg.token, !.tracker = cfg.tracker,
                      !.sources = json_dumps(cfg.sources), !.host = cfg.host,
                      !.bitrate = str_int(cfg.bitrate), !.content_id = cfg.content_id,
                      !.docker_active = cfg.docker_active]]

\* line 143: the records not named `nombre`
sin_evento(eventos, nombre) ==
    LET otro(e) == e.name # nombre IN SelectSeq(eventos, otro)

\* the request `op` for `cfg` ended with `res`
WebFin(op, cfg, res) ==
    [web EXCEPT !.pc = "idle", !.op = op, !.cfg = cfg, !.l = <<>>, !.hallado = FALSE,
                !.res = res, !.n = web.n + 1]

\* lines 104-118 (called at 420-425): append one row; a failure is reported
agregar_evento(cfg) ==
    /\ web.pc = "idle"
    /\ web.n < MaxWebOps
    /\ \E ok \in BOOLEAN :
        IF ok
        THEN /\ csv_exists' = TRUE
             /\ csv_rows' = Append(csv_rows, fila_de_config(cfg))
             /\ web' = [WebFin("agregar", cfg, "ok") EXCEPT !.antes = fuentes_leidas(csv_rows)]
        ELSE /\ web' = [WebFin("agregar", cfg, "OSError") EXCEPT !.antes = <<>>]
             /\ UNCHANGED store_vars
    /\ UNCHANGED <<validator_vars, docker_vars, vol_vars, req_vars, init_vars>>

\* lines 120-139 (called at 460-465): read and update the local list, or raise
\* ValueError when no record has the name
actualizar_evento(cfg) ==
    /\ web.pc = "idle"
    /\ web.n < MaxWebOps
    /\ IF ~csv_exists
       THEN web' = [WebFin("actualizar", cfg, "OSError") EXCEPT !.antes = <<>>]
       ELSE LET eventos == listar_eventos(csv_rows) IN
            IF PrimerIndice(eventos, cfg.nombre) = 0
            THEN web' = [WebFin("actualizar", cfg, "ValueError") EXCEPT !.antes = <<>>]
            ELSE web' = [web EXCEPT !.pc = "open", !.op = "actualizar", !.cfg = cfg,
                                    !.l = con_evento(eventos, cfg),
                                    !.antes = fuentes_leidas(csv_rows),
                                    !.hallado = TRUE,
                                    !.res = "none", !.n = web.n + 1]
    /\ UNCHANGED <<store_vars, validator_vars, docker_vars, vol_vars, req_vars, init_vars>>

\* lines 141-144 (called at 472): read and drop the records of the name
eliminar_evento(nombre) ==
    /\ web.pc = "idle"
    /\ web.n < MaxWebOps
    /\ IF ~csv_exists
       THEN web' = [WebFin("eliminar", [NoConfig EXCEPT !.nombre = nombre], "OSError")
                        EXCEPT !.antes = <<>>]
       ELSE web' = [web EXCEPT !.pc = "open", !.op = "eliminar",
                               !.cfg = [NoConfig EXCEPT !.nombre = nombre],
                               !.l = sin_evento(listar_eventos(csv_rows), nombre),
                               !.antes = fuentes_leidas(csv_rows),
                               !.hallado = PrimerIndice(listar_eventos(csv_rows), nombre) # 0,
                               !.res = "none", !.n = web.n + 1]
    /\ UNCHANGED <<store_vars, validator_vars, docker_vars, vol_vars, req_vars, init_vars>>

\* line 147, for the web request: open(csv_path, 'w') creates or truncates the file
web_abrir_csv ==
    /\ web.pc = "open"
    /\ \E ok \in BOOLEAN :
        IF ok
        THEN /\ csv_exists' = TRUE
             /\ csv_rows' = <<>>
             /\ web' = [web EXCEPT !.pc = "write"]
        ELSE /\ web' = [web EXCEPT !.pc = "idle", !.l = <<>>, !.res = "OSError"]
             /\ UNCHANGED store_vars
    /\ UNCHANGED <<validator_vars, docker_vars, vol_vars, req_vars, init_vars>>

\* lines 148-165, for the web request: the rows written, the request reported done
web_escribir_eventos ==
    /\ web.pc = "write"
    /\ csv_rows' = _escribir_eventos(web.l)
    /\ web' = [web EXCEPT !.pc = "idle", !.l = <<>>, !.res = "ok"]
    /\ UNCHANGED <<csv_exists, validator_vars, docker_vars, vol_vars, req_vars, init_vars>>

(* -- the web handlers alone -- *)

FilaSinFuentes ==
    Fila(<<"g">>, <<"G">>, str_int(9002), <<>>, <<"h">>, str_int(1), "", "False")

WebStores ==
    { <<>>, <<FilaBuenaD, FilaE>>, <<FilaE, FilaRota, FilaBuenaD>>, <<FilaSinFuentes, FilaE>> }

WebSources == { <<>>, <<FA(TRUE)>>, <<FA(FALSE), FB(TRUE)>>, <<FB(TRUE), FA(TRUE)>> }

WebConfigs ==
    {[ConfigBase EXCEPT !.nombre = n, !.sources = s] :
        n \in {NombreD, NombreE, <<"n">>}, s \in WebSources}

\* one step of a create, edit or delete request for one of the configs
web_request(cfgs) ==
    \/ \E cfg \in cfgs :
        \/ agregar_evento(cfg)
        \/ actualizar_evento(cfg)
        \/ eliminar_evento(cfg.nombre)
    \/ web_abrir_csv
    \/ web_escribir_eventos

InitWeb ==
    /\ csv_exists = TRUE
    /\ csv_rows \in WebStores
    /\ ValidatorOff
    /\ NoDocker
    /\ NoVolumes
    /\ pc = [t \in Threads |-> "off"]
    /\ nombre_req = [t \in Threads |-> <<>>]
    /\ config = [t \in Threads |-> NoConfig]
    /\ intentos = [t \in Threads |-> 0]
    /\ RequestLocals

SpecWeb == InitWeb /\ [][web_request(WebConfigs)]_vars

(* -- one start request while the web handlers use the store -- *)

InitStore ==
    /\ csv_exists = TRUE
    /\ csv_rows = <<FilaBuenaD, FilaE>>
    /\ ValidatorOff
    /\ containers \in { {}, {ContD("running")} }
    /\ next_id = 3
    /\ NoVolumes
    /\ pc = Solo("idle")
    /\ nombre_req = [t \in Threads |-> NombreD]
    /\ config = [t \in Threads |-> NoConfig]
    /\ intentos = [t \in Threads |-> 0]
    /\ RequestLocals

\* the web requests made meanwhile are for the event being started
StoreConfigs == {[ConfigBase EXCEPT !.sources = <<FA(TRUE)>>]}

NextStore == start_event("t1") \/ iniciar_docker_evento("t1") \/ web_request(StoreConfigs)

SpecStore == InitStore /\ [][NextStore]_vars

-----------------------------------------------------------------------------
(* -- a start request and, once it is over, a restart of the same event -- *)

InitRestart ==
    /\ csv_exists = TRUE
    /\ csv_rows = <<FilaBuenaD, FilaE>>
    /\ ValidatorOff
    /\ containers \in { {ContE}, {ContE, ContD("running")} }
    /\ next_id = 3
    /\ NoVolumes
    /\ pc = [t \in Threads |-> "idle"]
    /\ nombre_req = [t \in Threads |-> NombreD]
    /\ config = [t \in Threads |-> NoConfig]
    /\ intentos = [t \in Threads |-> 0]
    /\ RequestLocals

\* the request is over: its thread returned, or none was started
Terminada(t) == pc[t] \in {"returned", "not_started"}

NextRestart ==
    \/ start_event("t1")
    \/ iniciar_docker_evento("t1")
    \/ Terminada("t1") /\ start_event("t2")
    \/ Terminada("t1") /\ iniciar_docker_evento("t2")

SpecRestart == InitRestart /\ [][NextRestart]_vars

-----------------------------------------------------------------------------
(* Properties of the Source Validator (checked under SpecValidator) *)

\* the sources of record i as they are read back from the store
FuentesDe(i) == decode_sources(csv_rows[i].sources)

\* positions of record i whose source is not blank and for which ffprobe exits 0
Sondeables(i) ==
    {j \in 1..Len(FuentesDe(i)) :
        strip(FuentesDe(i)[j].source) # <<>> /\ probe[i][j] = "exit0"}

\* positions of record i carrying valid = true in the store
Marcadas(i) == {j \in 1..Len(FuentesDe(i)) : FuentesDe(i)[j].valid}

\* C1: after a validator run, every event with a non-empty sources sequence has at
\* most one source flagged valid; when some source is non-blank and probes
\* successfully the flagged one is the first such source in sequence order, and
\* every other source of the event is unflagged; when none is, no source is
\* flagged; a blank source is never flagged.
C1_FirstValidWins ==
    (v_pc = "done" /\ v_writes = 1) =>
        \A i \in 1..Len(csv_rows) :
            FuentesDe(i) # <<>> =>
                /\ Cardinality(Marcadas(i)) <= 1
                /\ Sondeables(i) # {} =>
                       \E j \in Sondeables(i) :
                           /\ \A k \in Sondeables(i) : j <= k
                           /\ Marcadas(i) = {j}
                /\ Sondeables(i) = {} => Marcadas(i) = {}
                /\ \A j \in 1..Len(FuentesDe(i)) :
                       strip(FuentesDe(i)[j].source) = <<>> => ~FuentesDe(i)[j].valid

\* a finished run over an event whose two sources both probe successfully: only
\* the first is flagged
C1_Witness ==
    /\ v_pc = "done"
    /\ v_writes = 1
    /\ \E i \in 1..Len(csv_rows) :
        /\ Sondeables(i) = {1, 2}
        /\ Marcadas(i) = {1}

\* C10 as stated: every run of the validator ends having rewritten the store once.
C10_EveryRunWritesOnce == v_pc = "done" => v_writes = 1

\* C10: a validator run that finds the store file rewrites the full record set
\* exactly once, in one pass after all events have been processed, whatever the
\* records contain; a run that finds no store file writes nothing and creates no
\* file; no run writes more than once.
C10_WritesOnceWhenStoreFound ==
    /\ v_writes <= 1
    /\ v_pc = "done" => v_writes = (IF v_found THEN 1 ELSE 0)
    /\ v_pc \in {"open", "write"} => (v_found /\ v_i = Len(v_eventos) + 1)
    /\ v_writes = 1 =>
        /\ v_pc = "done"
        /\ v_i = Len(v_eventos) + 1
        /\ Len(csv_rows) = Len(csv_rows0)
        /\ \A i \in 1..Len(csv_rows) :
            [csv_rows[i] EXCEPT !.sources = <<>>] = [csv_rows0[i] EXCEPT !.sources = <<>>]
    /\ (v_pc = "done" /\ ~v_found) => (~csv_exists /\ csv_rows = csv_rows0)

\* a finished run over a store holding an event with no sources and an event with
\* sources none of which is valid: the store was rewritten once, both records kept
C10_Witness ==
    /\ v_pc = "done"
    /\ v_writes = 1
    /\ Len(csv_rows) = 2
    /\ FuentesDe(1) = <<>>
    /\ FuentesDe(2) # <<>>
    /\ Marcadas(2) = {}

-----------------------------------------------------------------------------
(* Properties of the Readiness Poller (checked under SpecPoller) *)

\* C2: a poll allowed N attempts makes at most N monitor calls.  If the first k
\* calls (k < N) carry no content identifier and call k+1 carries one, the poll
\* returns that identifier after exactly k+1 calls.  It fails for exhaustion only
\* after exactly N calls none of which carried an identifier.  Until it ends,
\* every call made so far carried none.
C2_CallsUntilFirstIdentifier ==
    \A t \in Threads :
        /\ http_calls[t] <= intentos[t]
        /\ pc[t] = "poll" =>
            /\ http_calls[t] = no_listos[t]
            /\ http_calls[t] = intento[t]
        /\ pc[t] = "info" =>
            /\ no_listos[t] < intentos[t]
            /\ http_calls[t] = no_listos[t] + 1
            /\ content_id[t] = ultimo_id[t]
            /\ content_id[t] \in ContentIds
        /\ (pc[t] = "returned" /\ resultado[t].e = "RuntimeError") =>
            /\ http_calls[t] = intentos[t]
            /\ no_listos[t] = intentos[t]

\* a poll allowed MaxIntentos attempts that returned the identifier of its third
\* call after two calls without one
C2_Witness ==
    /\ pc["t1"] = "info"
    /\ intentos["t1"] = MaxIntentos
    /\ no_listos["t1"] = 2
    /\ http_calls["t1"] = 3
    /\ content_id["t1"] = "Y456"

-----------------------------------------------------------------------------
(* Properties of the Command Builder (checked under SpecBuilder) *)

\* positions of `tok` in an argument list
Posiciones(args, tok) == {i \in 1..Len(args) : args[i] = tok}

\* positions of the entries of the request's sources flagged valid
Flagged(t) == {i \in 1..Len(config[t].sources) : config[t].sources[i].valid}

\* the first entry flagged valid (there is one)
PrimeraFlagged(t) ==
    config[t].sources[CHOOSE i \in Flagged(t) : \A k \in Flagged(t) : i <= k]

\* the builder has been applied to the request's configuration
Construido(t) == pc[t] \in {"run", "returned"} /\ config[t] # NoConfig

\* the builder failed: no command, and the orchestrator reports the ValueError
SinComando(t) ==
    /\ pc[t] = "returned"
    /\ resultado[t].tipo = "error"
    /\ resultado[t].e = "ValueError"
    /\ comando[t] = <<>>

\* the builder emitted a command with exactly one --source value, `url`, and
\* exactly two port mappings (TCP and UDP) of the configured port
ComandoCon(t, url) ==
    LET args == comando[t]
        p == ToString(config[t].puerto)
    IN  /\ pc[t] = "run"
        /\ resultado[t].tipo = "none"
        /\ \E i \in 1..(Len(args) - 1) :
            /\ Posiciones(args, "--source") = {i}
            /\ args[i + 1] = Cat(url)
        /\ \E i, j \in 1..(Len(args) - 1) :
            /\ Posiciones(args, "-p") = {i, j}
            /\ i < j
            /\ args[i + 1] = p \o ":" \o p \o "/tcp"
            /\ args[j + 1] = p \o ":" \o p \o "/udp"

\* C7 as stated: the builder fails when no entry is flagged valid, and with at
\* least one flagged entry emits the command for the first flagged entry's URL.
C7_FirstFlaggedAlwaysBuilt ==
    Construido("t1") =>
        IF Flagged("t1") = {}
        THEN SinComando("t1")
        ELSE ComandoCon("t1", PrimeraFlagged("t1").source)

\* C7: the builder emits a command exactly when the first entry flagged valid
\* carries a non-empty URL; the command then has exactly one --source value, that
\* URL, and exactly two port-mapping tokens (TCP and UDP).  With no flagged entry,
\* or with a first flagged entry whose URL is empty, it fails and emits nothing.
C7_FirstFlaggedWithURLBuilt ==
    Construido("t1") =>
        IF Flagged("t1") = {} \/ PrimeraFlagged("t1").source = <<>>
        THEN SinComando("t1")
        ELSE ComandoCon("t1", PrimeraFlagged("t1").source)

\* a command built for a configuration with two flagged entries of different URLs
C7_Witness ==
    /\ pc["t1"] = "run"
    /\ Flagged("t1") = {1, 2}
    /\ config["t1"].sources[1].source = <<"b">>
    /\ config["t1"].sources[2].source = <<"a">>
    /\ ValorDe(comando["t1"], "--source") = "b"

-----------------------------------------------------------------------------
(* Properties of one start request running alone (checked under Spec) *)

\* positions in the request's runtime-command log of the commands named `c`
Emitidos(t, c) == {i \in 1..Len(cmds[t]) : cmds[t][i].cmd = c}

\* the container id the runtime reported for the event name in Reconciling, 0 if none
Reportado(t) ==
    IF cmds[t] # <<>> /\ cmds[t][1].cmd = "ps_a" /\ cmds[t][1].ok
    THEN cmds[t][1].id
    ELSE 0

\* C3: a start request issues at most one stop and at most one remove, only for the
\* container the runtime reported under the event name, the remove only after the
\* stop has succeeded.  When run is issued and a container had been reported, one
\* successful stop and then one successful remove of it precede the run; when none
\* had been reported, no stop and no remove were issued.  For a request running
\* alone no container of that name exists when run is issued.
C3_ReconcileBeforeRun ==
    LET t == "t1"
        log == cmds[t]
    IN  /\ Cardinality(Emitidos(t, "stop")) <= 1
        /\ Cardinality(Emitidos(t, "rm")) <= 1
        /\ \A i \in Emitidos(t, "stop") \cup Emitidos(t, "rm") :
            /\ Reportado(t) # 0
            /\ log[i].id = Reportado(t)
        /\ \A i \in Emitidos(t, "rm") :
            \E j \in Emitidos(t, "stop") : j < i /\ log[j].ok
        /\ \A r \in Emitidos(t, "run") :
            /\ log[1].cmd = "ps_a" /\ log[1].ok
            /\ IF Reportado(t) # 0
               THEN \E j, k \in 1..(r - 1) :
                       /\ j < k
                       /\ Emitidos(t, "stop") = {j} /\ log[j].ok
                       /\ Emitidos(t, "rm") = {k} /\ log[k].ok
               ELSE Emitidos(t, "stop") = {} /\ Emitidos(t, "rm") = {}
            /\ run_info[t].res # "conflicto"

\* run issued after the running container found under the name was stopped and removed
C3_Witness ==
    /\ Reportado("t1") = 1
    /\ Len(cmds["t1"]) >= 4
    /\ cmds["t1"][2] = Cmd("stop", 1, "", TRUE)
    /\ cmds["t1"][3] = Cmd("rm", 1, "", TRUE)
    /\ cmds["t1"][4].cmd = "run"
    /\ \A c \in containers : c.id # 1

\* C4: a start request never lets a fault escape: once iniciar_docker_evento is
\* over it has returned a result (success message, validation message or failure
\* string); a failed runtime command is the last one the request issues and the
\* request has then returned a failure string.
C4_FaultsBecomeResults ==
    \A t \in Threads :
        /\ pc[t] # "propagated"
        /\ pc[t] = "returned" => resultado[t].tipo \in {"ok", "validacion", "error"}
        /\ resultado[t].tipo # "none" => pc[t] = "returned"
        /\ \A i \in 1..Len(cmds[t]) :
            ~cmds[t][i].ok =>
                /\ i = Len(cmds[t])
                /\ pc[t] = "returned"
                /\ resultado[t].tipo = "error"

\* a request that returned a failure string after the poll ran out of attempts
C4_Witness ==
    /\ pc["t1"] = "returned"
    /\ resultado["t1"].tipo = "error"
    /\ resultado["t1"].e = "RuntimeError"
    /\ http_calls["t1"] = IntentosPorDefecto

\* C5: when validar reports violations for the request's configuration, the request
\* returns the list of all violations and nothing else happens: no runtime command,
\* no volume file removed, no command built, no monitor call, no store write.
C5_ViolationsStopTheRequest ==
    \A t \in Threads :
        (pc[t] \notin {"off", "idle", "not_started", "validar"} /\ validar(config[t]) # <<>>) =>
            /\ pc[t] = "returned"
            /\ resultado[t] = [NoResultado EXCEPT !.tipo = "validacion",
                                                  !.errores = validar(config[t])]
            /\ cmds[t] = <<>>
            /\ runs = 0
            /\ comando[t] = <<>>
            /\ http_calls[t] = 0
            /\ csv_rows = csv_rows0
            /\ vol_archivos = vol_archivos0

\* a request whose record has a bad port, a blank title and no non-blank source,
\* while a container of its name and temporary files exist
C5_Witness ==
    /\ pc["t1"] = "returned"
    /\ resultado["t1"].tipo = "validacion"
    /\ Len(resultado["t1"].errores) = 3
    /\ ContD("running") \in containers
    /\ vol_archivos = ArchivosD

-----------------------------------------------------------------------------
(* Properties of two concurrent start requests (checked under SpecConc) *)

\* t issued the first run of the two requests for one event name, at a moment when
\* the other request had completed Reconciling and had not yet issued its run, and
\* the other request has issued its run since
CarreraGanadaPor(t) ==
    /\ run_info[t].orden = 1
    /\ run_info[t].carrera
    /\ run_info[Otro(t)].orden = 2

\* the run of t was refused for its name and t returned a failure string
RechazadoPorNombre(t) ==
    /\ run_info[t].res = "conflicto"
    /\ pc[t] = "returned"
    /\ resultado[t].tipo = "error"
    /\ resultado[t].e = "CalledProcessError"

\* no two containers carry the same name
NombresUnicos == \A c, d \in containers : c.name = d.name => c = d

\* C8 as stated: whenever both requests completed Reconciling before either issued
\* run, the second run is refused as a duplicate name and that request fails, and
\* no two containers ever carry the same name.
C8_SecondRunAlwaysRejected ==
    /\ NombresUnicos
    /\ \A t \in Threads : CarreraGanadaPor(t) => RechazadoPorNombre(Otro(t))

\* C8: two requests for one event name can both complete Reconciling before either
\* issues run; whenever that happens and the first run creates its container, the
\* second run is refused as a duplicate name and that request returns a failure
\* result; if the first run fails without creating a container the second run is
\* not refused for its name; at no time do two containers carry the same name.
C8_SecondRunRejectedAfterCreation ==
    /\ NombresUnicos
    /\ \A t \in Threads :
        CarreraGanadaPor(t) =>
            IF run_info[t].res \in {"ok", "fail_created"}
            THEN RechazadoPorNombre(Otro(t))
            ELSE run_info[Otro(t)].res # "conflicto"

\* both requests were past Reconciling when t1 ran successfully, and the run of t2
\* was then refused
C8_Witness ==
    /\ CarreraGanadaPor("t1")
    /\ run_info["t1"].res = "ok"
    /\ RechazadoPorNombre("t2")

\* the change of request t is in the store: its record holds the identifier t
\* obtained and docker_active "True"
CambioPresente(t) ==
    LET i == PrimerIndice(csv_rows, config[t].nombre) IN
    /\ i # 0
    /\ csv_rows[i].content_id = content_id[t]
    /\ csv_rows[i].docker_active = "True"

\* both requests, for different event names, completed without error
AmbosCompletos ==
    /\ config["t1"].nombre # config["t2"].nombre
    /\ \A t \in Threads : pc[t] = "returned" /\ resultado[t].tipo = "ok"

\* C9: when two writers updating different event names both complete without error
\* and none of their update cycles began while the other writer was between the
\* read and the rewrite of one, both changes are in the store and no record is lost.
C9_SerializedUpdatesKept ==
    (AmbosCompletos /\ ~solapado) =>
        /\ CambioPresente("t1")
        /\ CambioPresente("t2")
        /\ Len(csv_rows) = Len(csv_rows0)

\* both writers completed without error and the change of one is absent from the store
C9_Witness ==
    /\ AmbosCompletos
    /\ solapado
    /\ \E t \in Threads : ~CambioPresente(t) /\ CambioPresente(Otro(t))

-----------------------------------------------------------------------------
(* Further properties of the Source Validator (checked under SpecValidator) *)

\* C11: a probe that cannot be run makes its source invalid and nothing more: in
\* the store rewritten by the run that entry is unflagged, the sources after it
\* and the events after it are flagged as first-valid-wins requires, and the run
\* ends with its one rewrite.
C11_ProbeErrorIsInvalidOnly ==
    (v_pc = "done" /\ v_found) =>
        /\ v_writes = 1
        /\ Len(csv_rows) = Len(csv_rows0)
        /\ \A i \in 1..Len(csv_rows) : \A j \in 1..Len(FuentesDe(i)) :
            probe[i][j] = "oserror" =>
                /\ ~FuentesDe(i)[j].valid
                /\ \A k \in (j + 1)..Len(FuentesDe(i)) :
                    FuentesDe(i)[k].valid <=>
                        (k \in Sondeables(i) /\ \A m \in Sondeables(i) : k <= m)
                /\ \A n \in (i + 1)..Len(csv_rows) : \A k \in 1..Len(FuentesDe(n)) :
                    FuentesDe(n)[k].valid <=>
                        (k \in Sondeables(n) /\ \A m \in Sondeables(n) : k <= m)

\* the first probe of the first event could not be run: its second source is the
\* one flagged, and the event after it has its first source flagged
C11_Witness ==
    /\ v_pc = "done"
    /\ v_writes = 1
    /\ Len(csv_rows) = 2
    /\ probe[1] = <<"oserror", "exit0">>
    /\ Marcadas(1) = {2}
    /\ Sondeables(2) # {}
    /\ Marcadas(2) = {1}

-----------------------------------------------------------------------------
(* Properties of store updates (checked under SpecStore and SpecWeb) *)

\* C12: an update that targets an event name with no record in the store is
\* reported as a failure, never as success: actualizar_evento ends with an error,
\* and a start request one of whose Persisting updates found no record of its
\* event returns a failure result.
C12_UpdateOfMissingRecordFails ==
    /\ (web.op = "actualizar" /\ web.pc = "idle" /\ ~web.hallado) => web.res # "ok"
    /\ \A t \in Threads :
        (sin_registro[t] /\ pc[t] = "returned") => resultado[t].tipo = "error"

\* no start request is in progress
EnReposo == \A t \in Threads : pc[t] \in {"off", "idle", "returned", "not_started"}

\* a container of the record's name is running
ContenedorActivo(row) ==
    \E c \in containers : c.name = Cat(row.name) /\ c.estado = "running"

\* C13: whenever no start request is in progress, a record whose docker_active is
\* "True" has a container running under its name; in particular a restart that
\* removed the container and then failed leaves no record "True" without one.
C13_ActiveOnlyIfRunning ==
    EnReposo =>
        \A i \in 1..Len(csv_rows) :
            csv_rows[i].docker_active = "True" => ContenedorActivo(csv_rows[i])

\* the violations validar reported to the request of t1, once Validating is over
Reportadas ==
    IF pc["t1"] = "returned" /\ resultado["t1"].tipo = "validacion"
    THEN {resultado["t1"].errores[i] : i \in 1..Len(resultado["t1"].errores)}
    ELSE {}

\* C14: each violation is reported exactly when its own rule is violated, whatever
\* the other fields are, and Validating changes no field of the configuration.
C14_RulesAreIndependent ==
    /\ [](pc["t1"] # "validar" =>
            LET cfg == config["t1"] IN
            /\ ErrNombre \in Reportadas <=> ~NombreValido(cfg.nombre)
            /\ ErrPuerto \in Reportadas <=> (cfg.puerto < PuertoMin \/ cfg.puerto > PuertoMax)
            /\ ErrHost \in Reportadas <=>
                    ~(_es_ip_valida(cfg.host) \/ _es_dominio_valido(cfg.host))
            /\ ErrBitrate \in Reportadas <=> (cfg.bitrate < 0 \/ cfg.bitrate > BitrateMax)
            /\ ErrTitulo \in Reportadas <=> strip(cfg.titulo) = <<>>
            /\ ErrSources \in Reportadas <=>
                    ~(\E i \in 1..Len(cfg.sources) : strip(cfg.sources[i].source) # <<>>)
            /\ Reportadas \subseteq
                    {ErrNombre, ErrPuerto, ErrHost, ErrBitrate, ErrTitulo, ErrSources})
    /\ [][config' = config]_vars

\* a configuration that breaks the name rule and the port rule has both reported
C14_Witness ==
    /\ pc["t1"] = "returned"
    /\ ~NombreValido(config["t1"].nombre)
    /\ config["t1"].puerto = PuertoMax + 1
    /\ {ErrNombre, ErrPuerto} \subseteq Reportadas
    /\ ErrHost \notin Reportadas

-----------------------------------------------------------------------------
(* Properties of the store requests of the web handlers (checked under SpecWeb) *)

\* a create or edit request has just written its config
Escrito == web.pc = "idle" /\ web.res = "ok" /\ web.op \in {"agregar", "actualizar"}

\* the position of the record the last request wrote: the appended row, or the
\* first record of the name
PosicionEscrita ==
    IF web.op = "agregar" THEN Len(csv_rows)
    ELSE PrimerIndice(listar_eventos(csv_rows), web.cfg.nombre)

\* C15: after agregar_evento or actualizar_evento wrote a config, listar_eventos
\* gives the written record exactly the sources written (same order, same flags)
\* and every other record the sources it read before; and a record whose sources
\* text does not decode reads as the empty sequence.
C15_SourcesRoundTrip ==
    /\ Escrito =>
        LET ahora == fuentes_leidas(csv_rows)
            k == PosicionEscrita
        IN  /\ Len(ahora) = Len(web.antes) + (IF web.op = "agregar" THEN 1 ELSE 0)
            /\ k \in 1..Len(ahora)
            /\ ahora[k] = web.cfg.sources
            /\ \A i \in 1..Len(web.antes) : i # k => ahora[i] = web.antes[i]
    /\ csv_exists =>
        \A i \in 1..Len(csv_rows) :
            ~json_loads(csv_rows[i].sources).ok => fuentes_leidas(csv_rows)[i] = <<>>

\* an edit wrote two sources into a store that holds an undecodable record
C15_Witness ==
    /\ Escrito
    /\ web.op = "actualizar"
    /\ web.n = 1
    /\ Len(web.cfg.sources) = 2
    /\ web.cfg.sources[1].valid # web.cfg.sources[2].valid
    /\ \E i \in 1..Len(csv_rows0) : ~json_loads(csv_rows0[i].sources).ok

-----------------------------------------------------------------------------
(* Properties of the order of the steps (checked under Spec) *)

\* the step of the start request a position belongs to: 1 Validating, 2 Reconciling,
\* 3 CleaningVolume, 4 Building, 5 Launching, 6 AwaitingReadiness, 7 Persisting,
\* 8 the end (Done or Error), 0 before the request
Paso(l) ==
    CASE l = "validar" -> 1
      [] l \in {"find", "stop", "rm"} -> 2
      [] l = "limpiar" -> 3
      [] l = "construir" -> 4
      [] l = "run" -> 5
      [] l \in {"ps", "poll", "info"} -> 6
      [] l \in {"cid_read", "cid_open", "cid_write", "act_read", "act_open", "act_write"} -> 7
      [] l \in {"returned", "propagated", "not_started"} -> 8
      [] OTHER -> 0

\* every command the request has issued so far succeeded
TodoBien(t) == \A i \in 1..Len(cmds[t]) : cmds[t][i].ok

\* one step of the request of t1 keeps the order of the steps
EnOrden ==
    LET t == "t1"
        p == Paso(pc[t])
        q == Paso(pc'[t])
    IN  /\ p # 8
        /\ q \in {p, p + 1, 8}
        /\ (pc'[t] = "returned" /\ resultado'[t].tipo = "ok") => p = 7
        /\ cmds'[t] # cmds[t] => p \in {2, 5, 6}
        /\ Emitidos(t, "run")' # Emitidos(t, "run") => p = 5
        /\ vol_archivos' # vol_archivos => p = 3
        /\ http_calls'[t] > http_calls[t] => p = 6
        /\ store_vars' # store_vars => p = 7

\* what has succeeded when the request of t1 stands at a step
PasosAnterioresBien ==
    LET t == "t1"
        p == Paso(pc[t])
    IN  /\ p \in 2..7 => validar(config[t]) = <<>>
        /\ p \in 3..7 => cmds[t] # <<>> /\ cmds[t][1].cmd = "ps_a" /\ TodoBien(t)
        /\ p \in 5..7 => /\ _construir_comando_docker(config[t]).ok
                         /\ comando[t] = _construir_comando_docker(config[t]).comando
        /\ p \in 6..7 => Emitidos(t, "run") # {} /\ TodoBien(t)
        /\ (p = 7 \/ pc[t] = "info") => content_id[t] \in ContentIds
        /\ Cardinality(Emitidos(t, "run")) <= 1
        /\ csv_rows # csv_rows0 => p \in {7, 8} /\ content_id[t] \in ContentIds
        /\ http_calls[t] > 0 =>
              \E i \in Emitidos(t, "run") : cmds[t][i].ok

\* C16: a start request passes the steps Validating, Reconciling, CleaningVolume,
\* Building, Launching, AwaitingReadiness, Persisting in this order and ends in Done
\* only from Persisting; a step is entered only when the earlier ones succeeded;
\* nothing happens after the end; run is issued only at Launching, the HTTP calls
\* only after a successful run, and the store changes only at Persisting, with a
\* content id the poller returned.
C16_StepsInOrder == []PasosAnterioresBien /\ [][EnOrden]_vars

\* a request went through every step and ended in Done
C16_Witness ==
    /\ pc["t1"] = "returned"
    /\ resultado["t1"].tipo = "ok"
    /\ Emitidos("t1", "rm") # {}
    /\ vol_archivos # vol_archivos0
    /\ csv_rows # csv_rows0

\* the commands of Reconciling that failed in the request of t
ReconciliacionFallida(t) ==
    {i \in 1..Len(cmds[t]) : cmds[t][i].cmd \in {"ps_a", "stop", "rm"} /\ ~cmds[t][i].ok}

\* C17: when the find, the stop or the remove of Reconciling fails, the request has
\* ended with a failure result, the failed command is the last one it issued (no
\* remove after a failed stop, no run), no file of the volume was deleted, no HTTP
\* call was made and the store is as it was.
C17_ReconcileFailureIsFatal ==
    \A t \in {"t1"} :
        ReconciliacionFallida(t) # {} =>
            /\ pc[t] = "returned"
            /\ resultado[t].tipo = "error"
            /\ ReconciliacionFallida(t) = {Len(cmds[t])}
            /\ Emitidos(t, "run") = {}
            /\ (~cmds[t][Len(cmds[t])].ok /\ cmds[t][Len(cmds[t])].cmd = "stop"
                    => Emitidos(t, "rm") = {})
            /\ vol_archivos = vol_archivos0
            /\ eliminados[t] = 0
            /\ http_calls[t] = 0
            /\ csv_rows = csv_rows0

\* a stop failed on the container found under the event name
C17_Witness ==
    /\ Len(cmds["t1"]) = 2
    /\ cmds["t1"][1].cmd = "ps_a" /\ cmds["t1"][1].ok
    /\ cmds["t1"][2].cmd = "stop" /\ ~cmds["t1"][2].ok
    /\ pc["t1"] = "returned"
    /\ vol_archivos # {}

-----------------------------------------------------------------------------
(* Properties of a restart (checked under SpecRestart) *)

\* the request of t launched a container and its poll ran out of attempts
Agotado(t) ==
    /\ pc[t] = "returned"
    /\ resultado[t].e = "RuntimeError"
    /\ \E i \in Emitidos(t, "run") : cmds[t][i].ok

\* the id `docker ps` reported to the request of t after its run
Lanzado(t) == cmds[t][Len(cmds[t])].id

\* C18: when the poll of the first request ran out of attempts, that request
\* returned a failure, issued no stop or remove after its run and left the store
\* as it was, and its container stays running under the event name until the next
\* request for the name acts on it; that request finds it in Reconciling and issues
\* its own run only after it stopped and removed it.
C18_ExhaustedPollLeavesContainer ==
    Agotado("t1") =>
        LET log1 == cmds["t1"]
            log2 == cmds["t2"]
            lanzado == {c \in containers : c.id = Lanzado("t1")}
        IN  /\ resultado["t1"].tipo = "error"
            /\ http_calls["t1"] = IntentosPorDefecto
            /\ \A i \in Emitidos("t1", "run") :
                \A j \in (i + 1)..Len(log1) : log1[j].cmd \notin {"stop", "rm"}
            /\ Paso(pc["t2"]) \in 0..6 => csv_rows = csv_rows0
            /\ Emitidos("t2", "stop") = {} =>
                    lanzado = {[id |-> Lanzado("t1"), name |-> Cat(NombreD),
                                estado |-> "running"]}
            /\ (log2 # <<>> /\ log2[1].ok) => log2[1].id = Lanzado("t1")
            /\ \A i \in Emitidos("t2", "run") :
                /\ i = 4
                /\ log2[2] = Cmd("stop", Lanzado("t1"), "", TRUE)
                /\ log2[3] = Cmd("rm", Lanzado("t1"), "", TRUE)
                /\ lanzado = {}

\* after an exhausted poll the next request removed the container and ran its own
C18_Witness ==
    /\ Agotado("t1")
    /\ Len(cmds["t2"]) >= 4
    /\ cmds["t2"][3] = Cmd("rm", Lanzado("t1"), "", TRUE)
    /\ cmds["t2"][4].cmd = "run" /\ cmds["t2"][4].ok
    /\ \E c \in containers : c.name = Cat(NombreD) /\ c.id # Lanzado("t1")

-----------------------------------------------------------------------------
(* Properties of CleaningVolume (checked under Spec) *)

\* the files deleted since the request began
Borrados == vol_archivos0 \ vol_archivos

\* the volume directory of the request of t1 cannot be cleaned: unsupported platform
\* or no such directory
SinDirectorio ==
    \/ plataforma \notin {"Windows", "Linux"}
    \/ ("acestreamengine_" \o Cat(config["t1"].nombre)) \notin vol_existe

\* CleaningVolume always hands over to Building
LimpiezaNoFatal == pc["t1"] = "limpiar" => pc'["t1"] = "construir"

\* whatever CleaningVolume did, apart from the value of the count
LimpiezaAcotada ==
    /\ (pc["t1"] # "idle" /\ SinDirectorio) => eliminados["t1"] = 0 /\ Borrados = {}
    /\ \A f \in Borrados : f.is_file /\ f.suffix \notin extensiones_permitidas
    /\ vol_archivos \subseteq vol_archivos0

\* C19 as stated, for the files and the count: CleaningVolume deletes nothing and
\* returns 0 without a cleanable directory, never deletes an .acelive or .sauth
\* file, and the count it returned is the number of files deleted.
C19_CountIsDeleted ==
    /\ LimpiezaAcotada
    /\ eliminados["t1"] = Cardinality(Borrados)

\* C19: CleaningVolume always hands over to Building, deletes nothing and returns 0
\* without a cleanable directory, never deletes an .acelive or .sauth file, and the
\* count it returned is the number of files deleted, or 0 when the scan of the
\* directory was cut short by an error other than a failed deletion.
C19_CountIsDeletedOrZero ==
    /\ [](LimpiezaAcotada /\ eliminados["t1"] \in {Cardinality(Borrados), 0})
    /\ [][LimpiezaNoFatal]_vars

\* one of two deletions failed, the other file was deleted and counted, and the
\* request went on to Building
C19_Witness ==
    /\ pc["t1"] = "construir"
    /\ Cardinality(Borrados) = 1
    /\ eliminados["t1"] = 1
    /\ \E f \in vol_archivos : f.is_file /\ f.suffix \notin extensiones_permitidas

-----------------------------------------------------------------------------
(* Termination of a start request (checked under SpecTermina) *)

\* C20: once iniciar_docker_evento has begun, the request eventually returns (Done
\* or Error), and it never makes more HTTP calls than the attempts of the poll.
C20_StartTerminates ==
    /\ (pc["t1"] = "validar") ~> (pc["t1"] = "returned")
    /\ [](http_calls["t1"] <= IntentosPorDefecto)

\* a request returned after the poll used every attempt
C20_Witness ==
    /\ pc["t1"] = "returned"
    /\ http_calls["t1"] = IntentosPorDefecto
    /\ intento["t1"] = IntentosPorDefecto
    /\ resultado["t1"].e = "RuntimeError"

-----------------------------------------------------------------------------
(* Properties of Persisting (checked under Spec and SpecConc) *)

\* the stored record of the event of request t, in `rows`; the request's own
\* configuration when the store has none
RegistroDe(rows, t) ==
    LET i == PrimerIndice(listar_eventos(rows), nombre_req[t]) IN
    IF i = 0 THEN [content_id |-> "", docker_active |-> "False"]
    ELSE [content_id |-> rows[i].content_id, docker_active |-> rows[i].docker_active]

\* C21: a start request that returned a failure result leaves the stored content_id
\* and docker_active of its event as they were before the request, whatever the
\* step that failed, a store failure during Persisting included.
C21_FailureLeavesRecord ==
    (pc["t1"] = "returned" /\ resultado["t1"].tipo # "ok") =>
        RegistroDe(csv_rows, "t1") = RegistroDe(csv_rows0, "t1")

\* a record flagged active holds a content id the poller can return
ActivoConIdentificador(rows) ==
    \A i \in 1..Len(rows) :
        rows[i].docker_active = "True" => rows[i].content_id \notin {"", "No encontrado"}

-----------------------------------------------------------------------------
(* Properties of a validator run next to a start request (checked under SpecCruce) *)

\* the records with the valid flags left out: each sources field as its list of URLs
SinFlags(rows) ==
    [i \in 1..Len(rows) |->
        LET fuentes == decode_sources(rows[i].sources) IN
        [rows[i] EXCEPT !.sources = [j \in 1..Len(fuentes) |-> fuentes[j].source]]]

\* the records as they were, with what the start request of t1 wrote last: both
\* fields after a success, at most the content id after a failure in Persisting
ComoEstaban ==
    LET antes == SinFlags(csv_rows0)
        i == PrimerIndice(listar_eventos(csv_rows0), nombre_req["t1"])
        hecho == pc["t1"] = "returned" /\ resultado["t1"].tipo = "ok"
        medio == pc["t1"] = "returned" /\ content_id["t1"] # ""
    IN  IF i = 0 THEN {antes}
        ELSE IF hecho
        THEN {[antes EXCEPT ![i].content_id = content_id["t1"], ![i].docker_active = "True"]}
        ELSE IF medio
        THEN {antes, [antes EXCEPT ![i].content_id = content_id["t1"]]}
        ELSE {antes}

\* the validator run is over and no start request is in progress
RunTerminado == v_pc = "done" /\ v_found /\ pc["t1"] \in {"idle", "returned", "not_started"}

-----------------------------------------------------------------------------
(* Properties of a request without a startable source (checked under Spec) *)

\* the request of t1 is over, for a configuration that passes validar and has no
\* source flagged valid
SinFuenteValida ==
    /\ pc["t1"] = "returned"
    /\ validar(config["t1"]) = <<>>
    /\ \A i \in 1..Len(config["t1"].sources) : ~config["t1"].sources[i].valid

\* no container has the name of the event of t1 and the request issued no run
SinContenedorNiRun ==
    /\ \A c \in containers : c.name # Cat(config["t1"].nombre)
    /\ Emitidos("t1", "run") = {}

\* C24 as stated: after a start request for a configuration that passes validar and
\* has no source flagged valid, the request has failed, no container with the
\* event name exists and run was never issued.
C24_NoContainerAfterNoSource ==
    SinFuenteValida => resultado["t1"].tipo = "error" /\ SinContenedorNiRun

\* C24: such a request always fails and never issues run; when it fails at Building
\* (Reconciling succeeded), no container with the event name exists, any
\* pre-existing one having been stopped and removed before.
C24_NoContainerAfterBuildingFails ==
    SinFuenteValida =>
        /\ resultado["t1"].tipo = "error"
        /\ Emitidos("t1", "run") = {}
        /\ TodoBien("t1") <=> resultado["t1"].e = "ValueError"
        /\ resultado["t1"].e = "ValueError" =>
                /\ SinContenedorNiRun
                /\ Reportado("t1") # 0 =>
                        /\ Emitidos("t1", "stop") = {2}
                        /\ Emitidos("t1", "rm") = {3}

\* a running container of the event was stopped and removed, then Building failed
C24_Witness ==
    /\ SinFuenteValida
    /\ resultado["t1"].e = "ValueError"
    /\ Reportado("t1") = 1
    /\ Emitidos("t1", "rm") = {3}
    /\ config["t1"].sources # <<>>

=============================================================================
